---- MODULE Spec2Model ----
(***************************************************************************)
(* Verification model of yedra: the shutdown barrier (util/counter.ts),    *)
(* the listening instance (routing/app.ts), the path compiler and matcher  *)
(* (routing/path.ts) and the two dispatchers (routing/router.ts and        *)
(* routing/app.ts).                                                        *)
(***************************************************************************)
EXTENDS Integers, Sequences, FiniteSets, TLC

\* ------------------------------------------------------------------------
\* Bounds
\* ------------------------------------------------------------------------
MaxCount == 3
MaxWaits == 2
MaxRequests == 2
MaxPatternSegs == 3
MaxPathSegs == 3
MaxRoutes == 2
MaxKeys == 3
MaxOptions == 2
MaxItems == 2
MaxValue == 6
MaxRefines == 2
MaxModifiers == 2

Waiters == 1..MaxWaits
Requests == 1..MaxRequests

VARIABLES
  count,      \* Counter.count
  resolve,    \* Counter.resolve: 0 is undefined, w is the resolver of promise w
  promise,    \* state of the promise returned by the w-th wait() call
  listening,  \* the HTTP server accepts new requests
  reqState,   \* per request: idle, handling, ended, closed
  stopState,  \* per Context.stop() call: none, waiting, done
  pathInput,  \* the string handed to new Path(...)
  pathObj,    \* the outcome of new Path(pathInput)
  matchRes,   \* the result of the last Path.match call on pathObj
  restRoutes, \* Yedra.restRoutes / Router.endpoints: the registered entries
  serveFiles, \* ServeData.files: the keys of the static file map
  serveFallback, \* ServeData.fallback is a function
  response,   \* the last request and the outcome the dispatcher gave it
  schema,     \* the schema under test
  input,      \* the value handed to schema.parse
  parsed,     \* the outcome of schema.parse(input): result or ValidationError
  reparsed,   \* the outcome of schema.parse(parsed.value), once parsed again
  derived,    \* the schemas that the modifier calls returned, in call order
  endpoint,   \* a ConcreteRestEndpoint: its body type and its three shapes
  request,    \* the request handed to endpoint.handle
  handled     \* the outcome of endpoint.handle(request)

counterVars == <<count, resolve, promise>>
listenVars == <<listening, reqState, stopState>>
pathVars == <<pathInput, pathObj, matchRes>>
routeVars == <<restRoutes, serveFiles, serveFallback, response>>
validationVars == <<schema, input, parsed, reparsed, derived>>
restVars == <<endpoint, request, handled>>
vars == <<count, resolve, promise, listening, reqState, stopState,
          pathInput, pathObj, matchRes,
          restRoutes, serveFiles, serveFallback, response,
          schema, input, parsed, reparsed, derived,
          endpoint, request, handled>>

\* ------------------------------------------------------------------------
\* util/counter.ts
\* ------------------------------------------------------------------------

\* Counter.wait(): the executor runs synchronously inside wait().
Wait(w) ==
  /\ promise[w] = "none"
  /\ IF count = 0
       THEN /\ promise' = [promise EXCEPT ![w] = "resolved"]
            /\ UNCHANGED resolve
       ELSE /\ promise' = [promise EXCEPT ![w] = "pending"]
            /\ resolve' = w
  /\ UNCHANGED count

\* Counter.increment()
Increment ==
  /\ count' = count + 1
  /\ UNCHANGED <<resolve, promise>>

\* A decrement that tests the count before subtracting.
DecrementTestsBefore ==
  /\ count' = count - 1
  /\ promise' = IF count = 0 /\ resolve # 0
                  THEN [promise EXCEPT ![resolve] = "resolved"]
                  ELSE promise
  /\ UNCHANGED resolve

\* Counter.decrement(): calling the stored resolver again is a no-op on an
\* already resolved promise; the resolver is never cleared.
Decrement ==
  /\ count' = count - 1
  /\ promise' = IF count' = 0 /\ resolve # 0
                  THEN [promise EXCEPT ![resolve] = "resolved"]
                  ELSE promise
  /\ UNCHANGED resolve

\* Direct use of a Counter object.
CounterWait(w) == Wait(w) /\ UNCHANGED <<listenVars, pathVars, routeVars, validationVars, restVars>>
CounterIncrement == count < MaxCount /\ Increment /\ UNCHANGED <<listenVars, pathVars, routeVars, validationVars, restVars>>
CounterDecrement == count > -MaxCount /\ Decrement /\ UNCHANGED <<listenVars, pathVars, routeVars, validationVars, restVars>>

\* ------------------------------------------------------------------------
\* routing/app.ts: BuiltApp.listen and Context.stop
\* ------------------------------------------------------------------------

\* A request handler that does not count the request.
OnRequestNoIncrement(r) ==
  /\ listening
  /\ reqState[r] = "idle"
  /\ UNCHANGED counterVars
  /\ reqState' = [reqState EXCEPT ![r] = "handling"]
  /\ UNCHANGED <<listening, stopState, pathVars, routeVars, validationVars, restVars>>

\* server.on('request'): counter.increment(), then this.handle(req, res).
OnRequest(r) ==
  /\ listening
  /\ reqState[r] = "idle"
  /\ Increment
  /\ reqState' = [reqState EXCEPT ![r] = "handling"]
  /\ UNCHANGED <<listening, stopState, pathVars, routeVars, validationVars, restVars>>

\* BuiltApp.handle reaches res.end().
HandleEnd(r) ==
  /\ reqState[r] = "handling"
  /\ reqState' = [reqState EXCEPT ![r] = "ended"]
  /\ UNCHANGED <<counterVars, listening, stopState, pathVars, routeVars, validationVars, restVars>>

\* res.on('close'): emitted once per response, after res.end() or when the
\* connection is dropped before the response was written.
OnClose(r) ==
  /\ reqState[r] \in {"handling", "ended"}
  /\ Decrement
  /\ reqState' = [reqState EXCEPT ![r] = "closed"]
  /\ UNCHANGED <<listening, stopState, pathVars, routeVars, validationVars, restVars>>

\* Context.stop(): close the servers, then counter.wait().then(resolve).
Stop(s) ==
  /\ stopState[s] = "none"
  /\ listening' = FALSE
  /\ Wait(s)
  /\ stopState' = [stopState EXCEPT ![s] = "waiting"]
  /\ UNCHANGED <<reqState, pathVars, routeVars, validationVars, restVars>>

\* The .then() callback of Context.stop() runs once wait() has resolved.
StopThen(s) ==
  /\ stopState[s] = "waiting"
  /\ promise[s] = "resolved"
  /\ stopState' = [stopState EXCEPT ![s] = "done"]
  /\ UNCHANGED <<counterVars, listening, reqState, pathVars, routeVars, validationVars, restVars>>

ActiveRequests == {r \in Requests : reqState[r] \in {"handling", "ended"}}

\* ------------------------------------------------------------------------
\* Strings are sequences of one-character strings.
\* ------------------------------------------------------------------------
LowerLetters ==
  <<"a", "b", "c", "d", "e", "f", "g", "h", "i", "j", "k", "l", "m",
    "n", "o", "p", "q", "r", "s", "t", "u", "v", "w", "x", "y", "z">>
UpperLetters ==
  <<"A", "B", "C", "D", "E", "F", "G", "H", "I", "J", "K", "L", "M",
    "N", "O", "P", "Q", "R", "S", "T", "U", "V", "W", "X", "Y", "Z">>
Digits == {"0", "1", "2", "3", "4", "5", "6", "7", "8", "9"}

\* The character class [a-z0-9] of the segment regex.
LowerAlnum == Digits \cup {LowerLetters[k] : k \in 1..26}
IsLowerAlnum(c) == c \in LowerAlnum

\* String.prototype.toLowerCase
UpperSet == {UpperLetters[k] : k \in 1..26}
LowerOf == [c \in UpperSet |-> LowerLetters[CHOOSE k \in 1..26 : UpperLetters[k] = c]]
ToLowerCase(str) ==
  [i \in 1..Len(str) |-> IF str[i] \in UpperSet THEN LowerOf[str[i]] ELSE str[i]]

\* str.startsWith(c) and str.endsWith(c) for a one-character c
StartsWith(str, c) == Len(str) >= 1 /\ str[1] = c
EndsWith(str, c) == Len(str) >= 1 /\ str[Len(str)] = c

\* str.substring(1)
Substring1(str) == IF Len(str) = 0 THEN <<>> ELSE Tail(str)

RECURSIVE SplitFrom(_, _, _, _)
SplitFrom(str, i, cur, acc) ==
  IF i > Len(str) THEN Append(acc, cur)
  ELSE IF str[i] = "/" THEN SplitFrom(str, i + 1, <<>>, Append(acc, cur))
  ELSE SplitFrom(str, i + 1, Append(cur, str[i]), acc)

\* str.split('/'): the empty string splits into one empty segment.
Split(str) == SplitFrom(str, 1, <<>>, <<>>)

\* Array.prototype.findIndex, 1-based; 0 stands for -1.
\* The argument is the sequence of the predicate's values on the array.
FindIndex(tests) ==
  IF \E i \in 1..Len(tests) : tests[i]
    THEN CHOOSE i \in 1..Len(tests) : tests[i] /\ \A j \in 1..(i - 1) : ~tests[j]
    ELSE 0

\* ------------------------------------------------------------------------
\* routing/path.ts
\* ------------------------------------------------------------------------

\* part.match(/^(:?[a-z0-9]+\??)|\*$/): the alternation is not grouped, so the
\* regex accepts a part that starts with an optional ':' and one character of
\* [a-z0-9] (whatever follows), or a part that ends with '*'.
SegmentMatchesRegex(part) ==
  \/ LET j == IF StartsWith(part, ":") THEN 2 ELSE 1
     IN  j <= Len(part) /\ IsLowerAlnum(part[j])
  \/ EndsWith(part, "*")

IsWildcard(part) == part = <<"*">>
IsOptional(part) == EndsWith(part, "?")
NotMatchingRegex(part) == ~SegmentMatchesRegex(part)

NoPath == [ok |-> FALSE, error |-> "none", expected |-> <<>>]

\* A constructor without the wildcard position check.
NewPathNoWildcardCheck(path) ==
  LET expected == Split(Substring1(path))
      invalid == FindIndex([i \in DOMAIN expected |-> NotMatchingRegex(expected[i])])
      firstOptional == FindIndex([i \in DOMAIN expected |-> IsOptional(expected[i])])
  IN  IF ~StartsWith(path, "/")
        THEN [ok |-> FALSE, error |-> "start", expected |-> <<>>]
      ELSE IF invalid # 0 /\ expected[invalid] # <<>>
        THEN [ok |-> FALSE, error |-> "segment", expected |-> <<>>]
      ELSE IF firstOptional # 0
              /\ ~(\A i \in firstOptional..Len(expected) : IsOptional(expected[i]))
        THEN [ok |-> FALSE, error |-> "optional", expected |-> <<>>]
      ELSE [ok |-> TRUE, error |-> "none", expected |-> expected]

\* A constructor that only tests the segment next to the first optional one.
NewPathOptionalNextOnly(path) ==
  LET expected == Split(Substring1(path))
      invalid == FindIndex([i \in DOMAIN expected |-> NotMatchingRegex(expected[i])])
      wildcard == FindIndex([i \in DOMAIN expected |-> IsWildcard(expected[i])])
      firstOptional == FindIndex([i \in DOMAIN expected |-> IsOptional(expected[i])])
  IN  IF ~StartsWith(path, "/")
        THEN [ok |-> FALSE, error |-> "start", expected |-> <<>>]
      ELSE IF invalid # 0 /\ expected[invalid] # <<>>
        THEN [ok |-> FALSE, error |-> "segment", expected |-> <<>>]
      ELSE IF wildcard # 0 /\ wildcard # Len(expected)
        THEN [ok |-> FALSE, error |-> "wildcard", expected |-> <<>>]
      ELSE IF firstOptional # 0 /\ firstOptional < Len(expected)
              /\ ~IsOptional(expected[firstOptional + 1])
        THEN [ok |-> FALSE, error |-> "optional", expected |-> <<>>]
      ELSE [ok |-> TRUE, error |-> "none", expected |-> expected]

\* new Path(path): the four checks in source order. `find` returns the
\* invalid segment itself and `if (invalidSegment)` tests its truthiness, so
\* an empty segment, although it does not match the regex, is not rejected.
NewPath(path) ==
  LET expected == Split(Substring1(path))
      invalid == FindIndex([i \in DOMAIN expected |-> NotMatchingRegex(expected[i])])
      wildcard == FindIndex([i \in DOMAIN expected |-> IsWildcard(expected[i])])
      firstOptional == FindIndex([i \in DOMAIN expected |-> IsOptional(expected[i])])
  IN  IF ~StartsWith(path, "/")
        THEN [ok |-> FALSE, error |-> "start", expected |-> <<>>]
      ELSE IF invalid # 0 /\ expected[invalid] # <<>>
        THEN [ok |-> FALSE, error |-> "segment", expected |-> <<>>]
      ELSE IF wildcard # 0 /\ wildcard # Len(expected)
        THEN [ok |-> FALSE, error |-> "wildcard", expected |-> <<>>]
      ELSE IF firstOptional # 0
              /\ ~(\A i \in firstOptional..Len(expected) : IsOptional(expected[i]))
        THEN [ok |-> FALSE, error |-> "optional", expected |-> <<>>]
      ELSE [ok |-> TRUE, error |-> "none", expected |-> expected]

\* Path.normalizeParam: strips ':' and '?' into `result` but returns `param`.
NormalizeParam(param) == param

EmptyParams == [k \in {} |-> <<>>]

\* The two shapes of a match result: undefined, or the params record.
Undefined == [matched |-> FALSE, params |-> EmptyParams]
Matched(params) == [matched |-> TRUE, params |-> params]

\* params[key] = value
SetParam(params, key, value) ==
  [k \in (DOMAIN params) \cup {key} |-> IF k = key THEN value ELSE params[k]]

RECURSIVE MatchLoopNoIncompleteCheck(_, _, _, _)
\* A loop that accepts a concrete path ending before the pattern does.
MatchLoopNoIncompleteCheck(expected, actual, i, params) ==
  IF i > Len(actual) THEN Matched(params)
  ELSE IF expected[i] = <<"*">> THEN Matched(params)
  ELSE IF StartsWith(expected[i], ":")
    THEN MatchLoopNoIncompleteCheck(expected, actual, i + 1,
                   SetParam(params, NormalizeParam(expected[i]), actual[i]))
  ELSE IF expected[i] # ToLowerCase(actual[i]) THEN Undefined
  ELSE MatchLoopNoIncompleteCheck(expected, actual, i + 1, params)

RECURSIVE MatchLoop(_, _, _, _)
\* The body of the for loop and the code after it; i is 1-based.
MatchLoop(expected, actual, i, params) ==
  IF i > Len(actual)
    THEN IF Len(actual) < Len(expected) /\ ~EndsWith(expected[Len(actual) + 1], "?")
           THEN Undefined
           ELSE Matched(params)
  ELSE IF expected[i] = <<"*">> THEN Matched(params)
  ELSE IF StartsWith(expected[i], ":")
    THEN MatchLoop(expected, actual, i + 1,
                   SetParam(params, NormalizeParam(expected[i]), actual[i]))
  ELSE IF expected[i] # ToLowerCase(actual[i]) THEN Undefined
  ELSE MatchLoop(expected, actual, i + 1, params)

\* Path.match(path) of routing/path.ts: the params record, or Undefined.
Match(expected, path) ==
  LET actual == Split(Substring1(path))
  IN  IF Len(expected) < Len(actual) /\ ~(\E i \in 1..Len(expected) : expected[i] = <<"*">>)
        THEN Undefined
        ELSE MatchLoop(expected, actual, 1, EmptyParams)

\* ------------------------------------------------------------------------
\* Path.match as called by routing/app.ts: it returns { params, score }.
\* ------------------------------------------------------------------------

\* Number.POSITIVE_INFINITY, the score of a match through a wildcard.
Infinity == 1000000

UndefinedScored == [matched |-> FALSE, params |-> EmptyParams, score |-> 0]
MatchedScored(params, score) == [matched |-> TRUE, params |-> params, score |-> score]

\* The literal a segment stands for: without the trailing '?'.
StripOptional(part) ==
  IF EndsWith(part, "?") THEN SubSeq(part, 1, Len(part) - 1) ELSE part

\* The name of a parameter segment: without the leading ':' and trailing '?'.
ParamName(part) == StripOptional(Substring1(part))

RECURSIVE MatchScoredLoop(_, _, _, _, _)
MatchScoredLoop(expected, actual, i, params, score) ==
  IF i > Len(actual)
    THEN IF Len(actual) < Len(expected)
           THEN IF expected[Len(actual) + 1] = <<"*">>
                  THEN MatchedScored(params, Infinity)
                ELSE IF \A j \in (Len(actual) + 1)..Len(expected) : EndsWith(expected[j], "?")
                  THEN MatchedScored(params, score)
                ELSE UndefinedScored
           ELSE MatchedScored(params, score)
  ELSE IF expected[i] = <<"*">> THEN MatchedScored(params, Infinity)
  ELSE IF StartsWith(expected[i], ":")
    THEN MatchScoredLoop(expected, actual, i + 1,
                         SetParam(params, ParamName(expected[i]), actual[i]), score + 1)
  ELSE IF StripOptional(expected[i]) # ToLowerCase(actual[i]) THEN UndefinedScored
  ELSE MatchScoredLoop(expected, actual, i + 1, params, score)

MatchScored(expected, path) ==
  LET actual == Split(Substring1(path))
  IN  IF Len(expected) < Len(actual) /\ ~(\E i \in 1..Len(expected) : expected[i] = <<"*">>)
        THEN UndefinedScored
        ELSE MatchScoredLoop(expected, actual, 1, EmptyParams, 0)

\* ------------------------------------------------------------------------
\* routing/router.ts and routing/app.ts: the dispatchers
\* ------------------------------------------------------------------------
Methods == {"GET", "POST", "PUT", "DELETE"}

\* `result` of the scans: index 0 stands for undefined.
NoResult == [index |-> 0, params |-> EmptyParams, score |-> 0]

RECURSIVE MatchEndpointLastWinsFrom(_, _, _, _, _, _)
\* A scan that replaces the result on an equal score.
MatchEndpointLastWinsFrom(endpoints, url, method, i, invalidMethod, result) ==
  IF i > Len(endpoints) THEN [invalidMethod |-> invalidMethod, result |-> result]
  ELSE LET m == Match(endpoints[i].path, url)
           score == Cardinality(DOMAIN m.params)
       IN  IF ~m.matched
             THEN MatchEndpointLastWinsFrom(endpoints, url, method, i + 1, invalidMethod, result)
           ELSE IF endpoints[i].method # method
             THEN MatchEndpointLastWinsFrom(endpoints, url, method, i + 1, TRUE, result)
           ELSE IF result.index = 0 \/ score <= result.score
             THEN MatchEndpointLastWinsFrom(endpoints, url, method, i + 1, invalidMethod,
                    [index |-> i, params |-> m.params, score |-> score])
           ELSE MatchEndpointLastWinsFrom(endpoints, url, method, i + 1, invalidMethod, result)

RECURSIVE MatchEndpointFirstWinsFrom(_, _, _, _, _, _)
\* A scan that keeps the first matching entry whatever the scores.
MatchEndpointFirstWinsFrom(endpoints, url, method, i, invalidMethod, result) ==
  IF i > Len(endpoints) THEN [invalidMethod |-> invalidMethod, result |-> result]
  ELSE LET m == Match(endpoints[i].path, url)
           score == Cardinality(DOMAIN m.params)
       IN  IF ~m.matched
             THEN MatchEndpointFirstWinsFrom(endpoints, url, method, i + 1, invalidMethod, result)
           ELSE IF endpoints[i].method # method
             THEN MatchEndpointFirstWinsFrom(endpoints, url, method, i + 1, TRUE, result)
           ELSE IF result.index = 0
             THEN MatchEndpointFirstWinsFrom(endpoints, url, method, i + 1, invalidMethod,
                    [index |-> i, params |-> m.params, score |-> score])
           ELSE MatchEndpointFirstWinsFrom(endpoints, url, method, i + 1, invalidMethod, result)

RECURSIVE MatchEndpointFrom(_, _, _, _, _, _)
\* The for loop of Router.matchEndpoint from entry i on.
MatchEndpointFrom(endpoints, url, method, i, invalidMethod, result) ==
  IF i > Len(endpoints) THEN [invalidMethod |-> invalidMethod, result |-> result]
  ELSE LET m == Match(endpoints[i].path, url)
           score == Cardinality(DOMAIN m.params)
       IN  IF ~m.matched
             THEN MatchEndpointFrom(endpoints, url, method, i + 1, invalidMethod, result)
           ELSE IF endpoints[i].method # method
             THEN MatchEndpointFrom(endpoints, url, method, i + 1, TRUE, result)
           ELSE IF result.index = 0 \/ score < result.score
             THEN MatchEndpointFrom(endpoints, url, method, i + 1, invalidMethod,
                    [index |-> i, params |-> m.params, score |-> score])
           ELSE MatchEndpointFrom(endpoints, url, method, i + 1, invalidMethod, result)

\* Router.matchEndpoint(url, method)
MatchEndpoint(endpoints, url, method) ==
  MatchEndpointFrom(endpoints, url, method, 1, FALSE, NoResult)

RECURSIVE MatchRestRouteNoFlagFrom(_, _, _, _, _, _)
\* A scan that does not record a method mismatch.
MatchRestRouteNoFlagFrom(routes, url, method, i, invalidMethod, result) ==
  IF i > Len(routes) THEN [invalidMethod |-> invalidMethod, result |-> result]
  ELSE LET m == MatchScored(routes[i].path, url)
       IN  IF ~m.matched
             THEN MatchRestRouteNoFlagFrom(routes, url, method, i + 1, invalidMethod, result)
           ELSE IF routes[i].method # method
             THEN MatchRestRouteNoFlagFrom(routes, url, method, i + 1, invalidMethod, result)
           ELSE IF result.index = 0 \/ m.score < result.score
             THEN MatchRestRouteNoFlagFrom(routes, url, method, i + 1, invalidMethod,
                    [index |-> i, params |-> m.params, score |-> m.score])
           ELSE MatchRestRouteNoFlagFrom(routes, url, method, i + 1, invalidMethod, result)

RECURSIVE MatchRestRouteFrom(_, _, _, _, _, _)
\* The for loop of BuiltApp.matchRestRoute from entry i on.
MatchRestRouteFrom(routes, url, method, i, invalidMethod, result) ==
  IF i > Len(routes) THEN [invalidMethod |-> invalidMethod, result |-> result]
  ELSE LET m == MatchScored(routes[i].path, url)
       IN  IF ~m.matched
             THEN MatchRestRouteFrom(routes, url, method, i + 1, invalidMethod, result)
           ELSE IF routes[i].method # method
             THEN MatchRestRouteFrom(routes, url, method, i + 1, TRUE, result)
           ELSE IF result.index = 0 \/ m.score < result.score
             THEN MatchRestRouteFrom(routes, url, method, i + 1, invalidMethod,
                    [index |-> i, params |-> m.params, score |-> m.score])
           ELSE MatchRestRouteFrom(routes, url, method, i + 1, invalidMethod, result)

\* BuiltApp.matchRestRoute(url, method)
MatchRestRoute(routes, url, method) ==
  MatchRestRouteFrom(routes, url, method, 1, FALSE, NoResult)

OpenApiPath == <<"/", "o", "p", "e", "n", "a", "p", "i", ".", "j", "s", "o", "n">>
FallbackKey == <<"_", "_", "f", "a", "l", "l", "b", "a", "c", "k">>

\* What a handler (endpoint.handle or the serve fallback) can end in: a
\* response, a thrown HttpError (answered with its status), any other error
\* (answered with 500).
HandlerStatuses == {200, 500}

\* A request and its outcome; `scanned` is the number of entries the scan of
\* the route table went over.
Outcome(by, method, url, kind, status, index, params, scanned) ==
  [by |-> by, method |-> method, url |-> url, kind |-> kind, status |-> status,
   route |-> index, params |-> params, scanned |-> scanned]

NoResponse == Outcome("none", "", <<>>, "none", 0, 0, EmptyParams, 0)

\* Router.handle(req); st is what the invoked handler ends in.
RouterHandleOutcome(endpoints, method, url, st) ==
  IF method \notin Methods
    THEN Outcome("router", method, url, "badMethod", 405, 0, EmptyParams, 0)
  ELSE LET match == MatchEndpoint(endpoints, url, method)
       IN  IF match.result.index = 0
             THEN IF match.invalidMethod
                    THEN Outcome("router", method, url, "methodNotAllowed", 405, 0, EmptyParams,
                                 Len(endpoints))
                    ELSE Outcome("router", method, url, "notFound", 404, 0, EmptyParams,
                                 Len(endpoints))
             ELSE Outcome("router", method, url, "handled", st,
                          match.result.index, match.result.params, Len(endpoints))

\* BuiltApp.performRequest(req); st is what the invoked handler or the serve
\* fallback ends in. generatedDocs is set by the constructor.
PerformRequestOutcome(routes, files, fallback, method, url, st) ==
  IF method \notin Methods
    THEN Outcome("app", method, url, "badMethod", 405, 0, EmptyParams, 0)
  ELSE IF method = "GET" /\ url = OpenApiPath
    THEN Outcome("app", method, url, "docs", 200, 0, EmptyParams, 0)
  ELSE LET match == MatchRestRoute(routes, url, method)
       IN  IF match.result.index = 0
             THEN IF method = "GET" /\ (url \in files \/ FallbackKey \in files)
                    THEN Outcome("app", method, url, "static", 200, 0, EmptyParams, Len(routes))
                  ELSE IF method = "GET" /\ fallback
                    THEN Outcome("app", method, url, "fallback", st, 0, EmptyParams, Len(routes))
                  ELSE IF match.invalidMethod
                    THEN Outcome("app", method, url, "methodNotAllowed", 405, 0, EmptyParams,
                               Len(routes))
                  ELSE Outcome("app", method, url, "notFound", 404, 0, EmptyParams, Len(routes))
             ELSE Outcome("app", method, url, "handled", st,
                          match.result.index, match.result.params, Len(routes))

\* Yedra.use(path, endpoint) with a REST endpoint: new Path(path) throws on an
\* invalid pattern and nothing is pushed.
Use(pattern, method) ==
  /\ Len(restRoutes) < MaxRoutes
  /\ LET path == NewPath(pattern)
     IN  restRoutes' = IF path.ok
                         THEN Append(restRoutes, [path |-> path.expected, method |-> method])
                         ELSE restRoutes
  /\ UNCHANGED <<serveFiles, serveFallback, response, counterVars, listenVars, pathVars, validationVars, restVars>>

\* Router.handle(req)
RouterHandle(method, url) ==
  /\ response' \in {RouterHandleOutcome(restRoutes, method, url, st) : st \in HandlerStatuses}
  /\ UNCHANGED <<restRoutes, serveFiles, serveFallback, counterVars, listenVars, pathVars, validationVars, restVars>>

\* A dispatcher that moves the selected entry to the front of the table.
PerformRequestMoveToFront(method, url) ==
  /\ response' \in {PerformRequestOutcome(restRoutes, serveFiles, serveFallback, method, url, st) :
                      st \in HandlerStatuses}
  /\ restRoutes' =
       IF response'.route = 0 THEN restRoutes
       ELSE <<restRoutes[response'.route]>>
              \o SubSeq(restRoutes, 1, response'.route - 1)
              \o SubSeq(restRoutes, response'.route + 1, Len(restRoutes))
  /\ UNCHANGED <<serveFiles, serveFallback, counterVars, listenVars, pathVars, validationVars, restVars>>

\* BuiltApp.performRequest(req)
PerformRequest(method, url) ==
  /\ response' \in {PerformRequestOutcome(restRoutes, serveFiles, serveFallback, method, url, st) :
                      st \in HandlerStatuses}
  /\ UNCHANGED <<restRoutes, serveFiles, serveFallback, counterVars, listenVars, pathVars, validationVars, restVars>>

\* Route patterns handed to Yedra.use: literal, parameter, optional and
\* wildcard routes, and two patterns the constructor rejects.
RoutePatterns ==
  {<<"/", "a", "/", "b">>,   \* /a/b
   <<"/", "a", "/", ":", "x">>,   \* /a/:x
   <<"/", ":", "x", "/", ":", "y">>,   \* /:x/:y
   <<"/", "a", "/", "*">>,   \* /a/*
   <<"/", "a", "/", ":", "x", "?">>,   \* /a/:x?
   <<"/", "*", "/", "b">>,   \* /*/b
   <<"/", "a", "?", "/", "b">>   \* /a?/b
  }
RouteMethods == {"GET", "POST"}

\* Requests: methods (one of them not allowed at all) and paths.
RequestMethods == {"GET", "POST", "PATCH"}
StaticPath == <<"/", "a", "/", "c">>
\* ServeData after Yedra.loadServe: nothing served, one static file, a
\* fallback file, or a fallback function.
ServeConfigs ==
  {[files |-> {}, fallback |-> FALSE],
   [files |-> {StaticPath}, fallback |-> FALSE],
   [files |-> {FallbackKey}, fallback |-> FALSE],
   [files |-> {}, fallback |-> TRUE]}
RequestPaths ==
  {<<"/", "a", "/", "b">>, <<"/", "a", "/", "c">>, <<"/", "a">>, <<"/", "c">>,
   OpenApiPath}

\* ------------------------------------------------------------------------
\* Inputs of the path compiler and matcher
\* ------------------------------------------------------------------------
RECURSIVE Join(_)
\* segments.join('/')
Join(segs) ==
  IF Len(segs) = 0 THEN <<>>
  ELSE IF Len(segs) = 1 THEN segs[1]
  ELSE segs[1] \o <<"/">> \o Join(Tail(segs))

SeqsUpTo(S, n) == UNION {[1..k -> S] : k \in 1..n}

PatternSegs ==
  {<<"a">>, <<":", "x">>, <<"a", "?">>, <<":", "x", "?">>, <<"*">>, <<"_">>, <<"a", "_">>}
PathSegs == {<<"a">>, <<"A">>, <<"b">>}

\* Pattern strings: segments joined with '/', with or without the leading '/'.
PatternInputs ==
  {pre \o Join(segs) : pre \in {<<"/">>, <<>>}, segs \in SeqsUpTo(PatternSegs, MaxPatternSegs)}

\* Concrete request paths.
ConcretePaths ==
  {pre \o Join(segs) : pre \in {<<"/">>, <<>>}, segs \in SeqsUpTo(PathSegs, MaxPathSegs)}

\* new Path(pathInput)
Construct ==
  /\ pathObj = NoPath
  /\ pathObj' = NewPath(pathInput)
  /\ UNCHANGED <<pathInput, matchRes, counterVars, listenVars, routeVars, validationVars, restVars>>

\* pathObj.match(path)
DoMatch(path) ==
  /\ pathObj.ok
  /\ matchRes' = [path |-> path, called |-> TRUE, result |-> Match(pathObj.expected, path)]
  /\ UNCHANGED <<pathInput, pathObj, counterVars, listenVars, routeVars, validationVars, restVars>>

NoMatchYet == [path |-> <<>>, called |-> FALSE, result |-> Undefined]

\* ------------------------------------------------------------------------
\* validation: JavaScript values, issues and parse outcomes
\* ------------------------------------------------------------------------

\* The property names of the model in insertion (for...in) order, and the
\* names every plain object inherits from Object.prototype.
KeyOrder == <<"a", "b", "constructor", "c">>
Keys == {KeyOrder[i] : i \in 1..MaxKeys}
ObjectPrototypeKeys == {"constructor", "toString", "valueOf", "hasOwnProperty"}

\* Values. A number is counted in halves (3 is num = 6, 1.5 is num = 3), so
\* that Number.isInteger has a value to reject.
NoProps == <<>>
JsUndefined == [type |-> "undefined", str |-> "", num |-> 0, props |-> NoProps]
JsNull == [type |-> "null", str |-> "", num |-> 0, props |-> NoProps]
JsFunction == [type |-> "function", str |-> "", num |-> 0, props |-> NoProps]
JsString(s) == [type |-> "string", str |-> s, num |-> 0, props |-> NoProps]
JsNumber(n) == [type |-> "number", str |-> "", num |-> n, props |-> NoProps]
JsObject(props) == [type |-> "object", str |-> "", num |-> 0, props |-> props]
JsBoolean(b) == [type |-> "boolean", str |-> "", num |-> IF b THEN 1 ELSE 0, props |-> NoProps]
\* An array holds its elements, a sequence, in `props`.
JsArray(elems) == [type |-> "array", str |-> "", num |-> 0, props |-> elems]

\* typeof obj
TypeOf(obj) == IF obj.type \in {"null", "array"} THEN "object" ELSE obj.type

\* The truthiness of a value in a condition.
Truthy(obj) ==
  CASE obj.type \in {"undefined", "null"} -> FALSE
    [] obj.type = "string" -> obj.str # ""
    [] obj.type = "number" -> obj.num # 0
    [] obj.type = "boolean" -> obj.num # 0
    [] OTHER -> TRUE

\* prop in obj, for a plain object: own or inherited from Object.prototype.
HasProperty(props, prop) == prop \in DOMAIN props \/ prop \in ObjectPrototypeKeys

\* obj[prop] for a plain object; the inherited members are functions.
GetProperty(props, prop) ==
  IF prop \in DOMAIN props THEN props[prop]
  ELSE IF prop \in ObjectPrototypeKeys THEN JsFunction
  ELSE JsUndefined

\* The own enumerable keys of a set of property names, in for...in order.
KeysInOrder(S) == SelectSeq(KeyOrder, LAMBDA k : k \in S)

\* Number.parseFloat on the strings of the model, in halves; other strings
\* give NaN.
NumericStrings == {"3", "4", "0", "-1", "1.5"}
ParseFloat(str) ==
  CASE str = "3" -> [nan |-> FALSE, num |-> 6]
    [] str = "4" -> [nan |-> FALSE, num |-> 8]
    [] str = "0" -> [nan |-> FALSE, num |-> 0]
    [] str = "-1" -> [nan |-> FALSE, num |-> -2]
    [] str = "1.5" -> [nan |-> FALSE, num |-> 3]
    [] OTHER -> [nan |-> TRUE, num |-> 0]

\* obj.toString() of a string or a number (counted in halves): the decimal
\* form of the numbers of the model.
ToStringOf(obj) ==
  IF obj.type = "string" THEN obj.str
  ELSE CASE obj.num = 6 -> "3"
         [] obj.num = 8 -> "4"
         [] obj.num = 0 -> "0"
         [] obj.num = -2 -> "-1"
         [] obj.num = 3 -> "1.5"
         [] obj.num = 2 -> "1"
         [] obj.num = 4 -> "2"
         [] obj.num = 1 -> "0.5"
         [] obj.num = -1 -> "-0.5"
         [] obj.num = 5 -> "2.5"
         [] obj.num = 7 -> "3.5"

\* Number.isInteger
IsInteger(n) == n % 2 = 0

\* { ...obj }: the own enumerable properties; a string spreads its
\* characters under their indices (the strings of the model have at most one
\* character apart from the numeric ones), other primitives spread nothing.
Spread(obj) ==
  CASE obj.type = "object" -> obj.props
    [] obj.type = "string" /\ obj.str \in {"x"} -> [k \in {"0"} |-> JsString(obj.str)]
    [] OTHER -> NoProps

\* { ...left, ...right }
Merge(left, right) ==
  [k \in (DOMAIN left) \cup (DOMAIN right) |->
     IF k \in DOMAIN right THEN right[k] ELSE left[k]]

\* new Issue(path, message): `detail` is the interpolated typeof of the
\* 'Expected ... but got ...' messages; the numbers interpolated into the
\* minimum and maximum messages are left out.
Issue(path, message, detail) == [path |-> path, message |-> message, detail |-> detail]

\* ValidationError.withPrefix
WithPrefix(issues, prefix) ==
  [i \in 1..Len(issues) |->
     Issue(<<prefix>> \o issues[i].path, issues[i].message, issues[i].detail)]

\* The outcome of a parse: the returned value, or the issues of the raised
\* ValidationError; `calls` lists the sub-schemas whose parse was invoked.
Returned(value, calls) == [ok |-> TRUE, value |-> value, issues |-> <<>>, calls |-> calls]
Raised(issues, calls) == [ok |-> FALSE, value |-> JsUndefined, issues |-> issues, calls |-> calls]
NotParsed == [ok |-> FALSE, value |-> JsUndefined, issues |-> <<>>, calls |-> <<"none">>]

\* ------------------------------------------------------------------------
\* validation: schemas
\* ------------------------------------------------------------------------
BaseSchema(type) ==
  [type |-> type, hasMin |-> FALSE, minValue |-> 0, hasMax |-> FALSE, maxValue |-> 0,
   lax |-> FALSE, shape |-> <<>>, children |-> <<>>, options |-> <<>>,
   predicate |-> "", defaultValue |-> JsUndefined, description |-> ""]
NoSchema == BaseSchema("none")

\* string(), number(), integer(), .min(value), .max(value); bounds in halves
StringSchema == BaseSchema("string")
NumberSchema == BaseSchema("number")
IntegerSchema == BaseSchema("integer")
WithMin(s, value) == [s EXCEPT !.hasMin = TRUE, !.minValue = value]
WithMax(s, value) == [s EXCEPT !.hasMax = TRUE, !.maxValue = value]
\* .optional()
OptionalSchema(s) == [BaseSchema("optional") EXCEPT !.children = <<s>>]
\* object(shape), laxObject(shape)
ObjectSchema(shape, lax) == [BaseSchema("object") EXCEPT !.shape = shape, !.lax = lax]
\* union(...options), intersection(left, right)
UnionSchema(options) == [BaseSchema("union") EXCEPT !.children = options]
IntersectionSchema(left, right) == [BaseSchema("intersection") EXCEPT !.children = <<left, right>>]

\* new ArraySchema(itemSchema, minItems, maxItems) of validation/array.ts,
\* and its min(items), max(items) and length(items); the bounds count items.
ArraySchema(itemSchema) == [BaseSchema("array") EXCEPT !.children = <<itemSchema>>]
ArrayMin(s, items) == [s EXCEPT !.hasMin = TRUE, !.minValue = items]
ArrayMax(s, items) == [s EXCEPT !.hasMax = TRUE, !.maxValue = items]
ArrayLength(s, items) ==
  [s EXCEPT !.hasMin = TRUE, !.minValue = items, !.hasMax = TRUE, !.maxValue = items]

\* ArraySchema.documentation(): the item bounds it reports.
ArrayDocumentation(s) ==
  [type |-> "array", hasMinItems |-> s.hasMin, minItems |-> s.minValue,
   hasMaxItems |-> s.hasMax, maxItems |-> s.maxValue]

\* .refine(fn): new RefinedSchema(this, fn, docs); the predicate is held by
\* its name.
RefinedSchema(s, fn) ==
  [BaseSchema("refined") EXCEPT !.children = <<s>>, !.predicate = fn]

\* .default(value): new DefaultSchema(this, value), and
\* .describe(description): new DocSchema(this, description)
DefaultSchema(s, value) ==
  [BaseSchema("default") EXCEPT !.children = <<s>>, !.defaultValue = value]
DocSchema(s, description) ==
  [BaseSchema("doc") EXCEPT !.children = <<s>>, !.description = description]

\* boolean() and _enum(...options)
BooleanSchema == BaseSchema("boolean")
EnumSchema(options) == [BaseSchema("enum") EXCEPT !.options = options]

\* NumberSchema.documentation() and IntegerSchema.documentation(): the
\* minimum and maximum they report.
NumericDocumentation(s) ==
  [type |-> s.type, hasMinimum |-> s.hasMin, minimum |-> s.minValue,
   hasMaximum |-> s.hasMax, maximum |-> s.maxValue]

\* Schema.isOptional(): false, overridden by OptionalSchema and DefaultSchema
\* (true) and by RefinedSchema and DocSchema (that of the wrapped schema).
RECURSIVE IsOptionalSchema(_)
IsOptionalSchema(s) ==
  CASE s.type \in {"optional", "default"} -> TRUE
    [] s.type \in {"refined", "doc"} -> IsOptionalSchema(s.children[1])
    [] OTHER -> FALSE

\* schema.documentation() of the leaf, array and wrapping schemas; an
\* absent entry is the empty sequence.
NoDocumentation ==
  [type |-> "", minimum |-> <<>>, maximum |-> <<>>, minItems |-> <<>>,
   maxItems |-> <<>>, enum |-> <<>>, items |-> <<>>, default |-> <<>>,
   description |-> <<>>]
RECURSIVE Documentation(_)
Documentation(s) ==
  LET bounds == NumericDocumentation(s)
      items == ArrayDocumentation(s)
  IN  CASE s.type \in {"string", "boolean"} -> [NoDocumentation EXCEPT !.type = s.type]
        [] s.type \in {"number", "integer"} ->
             [NoDocumentation EXCEPT
                !.type = s.type,
                !.minimum = IF bounds.hasMinimum THEN <<bounds.minimum>> ELSE <<>>,
                !.maximum = IF bounds.hasMaximum THEN <<bounds.maximum>> ELSE <<>>]
        [] s.type = "enum" -> [NoDocumentation EXCEPT !.type = "string", !.enum = s.options]
        [] s.type = "array" ->
             [NoDocumentation EXCEPT
                !.type = "array",
                !.items = <<Documentation(s.children[1])>>,
                !.minItems = IF items.hasMinItems THEN <<items.minItems>> ELSE <<>>,
                !.maxItems = IF items.hasMaxItems THEN <<items.maxItems>> ELSE <<>>]
        [] s.type \in {"optional", "refined"} -> Documentation(s.children[1])
        [] s.type = "default" ->
             [Documentation(s.children[1]) EXCEPT !.default = <<s.defaultValue>>]
        [] s.type = "doc" ->
             LET inner == Documentation(s.children[1])
             IN  IF inner.description # <<>> THEN inner
                 ELSE [inner EXCEPT !.description = <<s.description>>]

\* StringSchema.parse
ParseString(obj) ==
  IF TypeOf(obj) # "string"
    THEN Raised(<<Issue(<<>>, "Expected string but got", TypeOf(obj))>>, <<>>)
    ELSE Returned(obj, <<>>)

\* NumberSchema.parse and IntegerSchema.parse: they differ by the integer
\* test and its message.
ParseNumericTruthyBounds(s, obj) ==
  IF TypeOf(obj) \notin {"number", "string"}
    THEN Raised(<<Issue(<<>>, "Expected number but got", TypeOf(obj))>>, <<>>)
  ELSE LET f == IF TypeOf(obj) = "number" THEN [nan |-> FALSE, num |-> obj.num]
                ELSE ParseFloat(obj.str)
       IN  IF s.type = "number" /\ f.nan
             THEN Raised(<<Issue(<<>>, "Expected number but got", TypeOf(obj))>>, <<>>)
           ELSE IF s.type = "integer" /\ (f.nan \/ ~IsInteger(f.num))
             THEN Raised(<<Issue(<<>>, "Expected integer but got", TypeOf(obj))>>, <<>>)
           ELSE IF s.hasMin /\ s.minValue # 0 /\ f.num < s.minValue
             THEN Raised(<<Issue(<<>>, "Must be at least", "")>>, <<>>)
           ELSE IF s.hasMax /\ f.num > s.maxValue
             THEN Raised(<<Issue(<<>>, "Must be at most", "")>>, <<>>)
           ELSE Returned(JsNumber(f.num), <<>>)
ParseNumeric(s, obj) ==
  IF TypeOf(obj) \notin {"number", "string"}
    THEN Raised(<<Issue(<<>>, "Expected number but got", TypeOf(obj))>>, <<>>)
  ELSE LET f == IF TypeOf(obj) = "number" THEN [nan |-> FALSE, num |-> obj.num]
                ELSE ParseFloat(obj.str)
       IN  IF s.type = "number" /\ f.nan
             THEN Raised(<<Issue(<<>>, "Expected number but got", TypeOf(obj))>>, <<>>)
           ELSE IF s.type = "integer" /\ (f.nan \/ ~IsInteger(f.num))
             THEN Raised(<<Issue(<<>>, "Expected integer but got", TypeOf(obj))>>, <<>>)
           ELSE IF s.hasMin /\ f.num < s.minValue
             THEN Raised(<<Issue(<<>>, "Must be at least", "")>>, <<>>)
           ELSE IF s.hasMax /\ f.num > s.maxValue
             THEN Raised(<<Issue(<<>>, "Must be at most", "")>>, <<>>)
           ELSE Returned(JsNumber(f.num), <<>>)

\* The names of the alternatives of a union in `calls`.
IndexName == <<"0", "1", "2", "3">>

RECURSIVE Parse(_, _)
RECURSIVE ParseFields(_, _, _, _, _, _)
RECURSIVE ParseOptions(_, _, _, _)
RECURSIVE ParseItems(_, _, _, _, _)

\* The first loop of ObjectSchema.parse over the remaining fields `props` of
\* the shape.
ParseFields(shape, obj, props, result, issues, calls) ==
  IF props = <<>> THEN [result |-> result, issues |-> issues, calls |-> calls]
  ELSE LET prop == Head(props)
           propSchema == shape[prop]
       IN  IF ~(HasProperty(obj.props, prop) \/ IsOptionalSchema(propSchema))
             THEN ParseFields(shape, obj, Tail(props), result,
                              Append(issues, Issue(<<prop>>, "Required", "")), calls)
           ELSE LET r == Parse(propSchema, GetProperty(obj.props, prop))
                IN  IF r.ok
                      THEN ParseFields(shape, obj, Tail(props),
                                       Merge(result, [k \in {prop} |-> r.value]),
                                       issues, Append(calls, prop))
                      ELSE ParseFields(shape, obj, Tail(props), result,
                                       issues \o WithPrefix(r.issues, prop),
                                       Append(calls, prop))

\* The second loop of ObjectSchema.parse: the input keys of a strict object
\* that are not `in` the shape.
UnrecognizedIssues(shape, obj) ==
  LET extra == SelectSeq(KeysInOrder(DOMAIN obj.props), LAMBDA k : ~HasProperty(shape, k))
  IN  [i \in 1..Len(extra) |-> Issue(<<extra[i]>>, "Unrecognized", "")]

\* ObjectSchema.parse
ParseObject(s, obj) ==
  IF TypeOf(obj) # "object"
    THEN Raised(<<Issue(<<>>, "Expected object but got", TypeOf(obj))>>, <<>>)
  ELSE IF obj.type = "null"
    THEN Raised(<<Issue(<<>>, "Expected object but got", "null")>>, <<>>)
  ELSE LET fields == ParseFields(s.shape, obj, KeysInOrder(DOMAIN s.shape), NoProps, <<>>, <<>>)
           issues == IF s.lax THEN fields.issues
                     ELSE fields.issues \o UnrecognizedIssues(s.shape, obj)
       IN  IF Len(issues) > 0 THEN Raised(issues, fields.calls)
           ELSE Returned(JsObject(fields.result), fields.calls)

\* OptionalSchema.parse
ParseOptional(s, obj) ==
  IF obj.type = "undefined" THEN Returned(JsUndefined, <<>>)
  ELSE LET r == Parse(s.children[1], obj)
       IN  [r EXCEPT !.calls = <<"inner">>]

\* A union that forgets the issues of the alternatives before the last.
ParseOptionsLastIssues(options, obj, i, issues) ==
  IF i > Len(options) THEN Raised(issues, [k \in 1..Len(options) |-> IndexName[k]])
  ELSE LET r == Parse(options[i], obj)
       IN  IF r.ok THEN Returned(r.value, [k \in 1..i |-> IndexName[k]])
           ELSE ParseOptions(options, obj, i + 1, r.issues)

\* The loop of UnionSchema.parse from alternative i on.
ParseOptions(options, obj, i, issues) ==
  IF i > Len(options) THEN Raised(issues, [k \in 1..Len(options) |-> IndexName[k]])
  ELSE LET r == Parse(options[i], obj)
       IN  IF r.ok THEN Returned(r.value, [k \in 1..i |-> IndexName[k]])
           ELSE ParseOptions(options, obj, i + 1, issues \o r.issues)

\* UnionSchema.parse
ParseUnion(s, obj) == ParseOptions(s.children, obj, 1, <<>>)

\* IntersectionSchema.parse: `left` and `right` stay undefined when their
\* parse raises, and the test before the merge is their truthiness.
ParseIntersection(s, obj) ==
  LET l == Parse(s.children[1], obj)
      r == Parse(s.children[2], obj)
      left == IF l.ok THEN l.value ELSE JsUndefined
      right == IF r.ok THEN r.value ELSE JsUndefined
  IN  IF ~(Truthy(left) /\ Truthy(right))
        THEN Raised(l.issues \o r.issues, <<"left", "right">>)
        ELSE Returned(JsObject(Merge(Spread(left), Spread(right))), <<"left", "right">>)

\* The element loop of ArraySchema.parse from element i on.
ParseItems(itemSchema, obj, i, elems, issues) ==
  IF i > Len(obj.props) THEN [elems |-> elems, issues |-> issues]
  ELSE LET r == Parse(itemSchema, obj.props[i])
       IN  IF r.ok THEN ParseItems(itemSchema, obj, i + 1, Append(elems, r.value), issues)
           ELSE ParseItems(itemSchema, obj, i + 1, elems,
                           issues \o WithPrefix(r.issues, IndexName[i]))

\* ArraySchema.parse of validation/array.ts: a bound is tested only when
\* `this.minItems` / `this.maxItems` is truthy, and before the elements.
ParseArray(s, obj) ==
  IF obj.type # "array"
    THEN Raised(<<Issue(<<>>, "Expected array but got", TypeOf(obj))>>, <<>>)
  ELSE IF s.hasMin /\ s.minValue # 0 /\ Len(obj.props) < s.minValue
    THEN Raised(<<Issue(<<>>, "Must have at least", "")>>, <<>>)
  ELSE IF s.hasMax /\ s.maxValue # 0 /\ Len(obj.props) > s.maxValue
    THEN Raised(<<Issue(<<>>, "Must have at most", "")>>, <<>>)
  ELSE LET items == ParseItems(s.children[1], obj, 1, <<>>, <<>>)
           calls == [k \in 1..Len(obj.props) |-> IndexName[k]]
       IN  IF Len(items.issues) > 0 THEN Raised(items.issues, calls)
           ELSE Returned(JsArray(items.elems), calls)

\* BooleanSchema.parse
ParseBooleanStringsOnly(obj) ==
  IF obj = JsString("true") THEN Returned(JsBoolean(TRUE), <<>>)
  ELSE IF obj = JsString("false") THEN Returned(JsBoolean(FALSE), <<>>)
  ELSE Raised(<<Issue(<<>>, "Expected boolean but got", TypeOf(obj))>>, <<>>)
ParseBoolean(obj) ==
  IF obj = JsString("true") THEN Returned(JsBoolean(TRUE), <<>>)
  ELSE IF obj = JsString("false") THEN Returned(JsBoolean(FALSE), <<>>)
  ELSE IF TypeOf(obj) # "boolean"
    THEN Raised(<<Issue(<<>>, "Expected boolean but got", TypeOf(obj))>>, <<>>)
  ELSE Returned(obj, <<>>)

\* this.normalized = options.map((option) => option.toString())
Normalized(options) == [i \in DOMAIN options |-> ToStringOf(options[i])]

\* EnumSchema.parse; `index` is normalized.indexOf(normalizedObj), from 1,
\* and 0 when there is none.
ParseEnumReturnsInput(s, obj) ==
  IF TypeOf(obj) \notin {"string", "number"}
    THEN Raised(<<Issue(<<>>, "Expected one of", TypeOf(obj))>>, <<>>)
  ELSE LET normalized == Normalized(s.options)
           index == FindIndex([i \in DOMAIN normalized |-> normalized[i] = ToStringOf(obj)])
       IN  IF index = 0
             THEN Raised(<<Issue(<<>>, "Expected one of", ToStringOf(obj))>>, <<>>)
             ELSE Returned(obj, <<>>)
ParseEnum(s, obj) ==
  IF TypeOf(obj) \notin {"string", "number"}
    THEN Raised(<<Issue(<<>>, "Expected one of", TypeOf(obj))>>, <<>>)
  ELSE LET normalized == Normalized(s.options)
           index == FindIndex([i \in DOMAIN normalized |-> normalized[i] = ToStringOf(obj)])
       IN  IF index = 0
             THEN Raised(<<Issue(<<>>, "Expected one of", ToStringOf(obj))>>, <<>>)
             ELSE Returned(s.options[index], <<>>)

\* The predicates handed to refine, on a number n (counted in halves), and
\* what they return: true, false, or a message.
\*   positive: (n) => n > 0 || 'Must be positive'
\*   small:    (n) => n < 2 || 'Must be less than 2'
\*   even:     (n) => n % 2 === 0
PredicateNames == {"positive", "small", "even"}
Predicate(fn, value) ==
  CASE fn = "positive" ->
         IF value.num > 0 THEN [result |-> "true", message |-> ""]
         ELSE [result |-> "string", message |-> "Must be positive"]
    [] fn = "small" ->
         IF value.num < 4 THEN [result |-> "true", message |-> ""]
         ELSE [result |-> "string", message |-> "Must be less than 2"]
    [] fn = "even" ->
         IF value.num % 4 = 0 THEN [result |-> "true", message |-> ""]
         ELSE [result |-> "false", message |-> ""]

\* RefinedSchema.parse: an error of the inner parse passes through, and the
\* predicate is called on the parsed value only.
ParseRefinedAlwaysTests(s, obj) ==
  LET inner == Parse(s.children[1], obj)
      result == Predicate(s.predicate, IF inner.ok THEN inner.value ELSE obj)
      message == IF result.result = "string" THEN result.message ELSE "Validation failed"
  IN  IF result.result = "true" THEN inner
      ELSE Raised(<<Issue(<<>>, message, "")>>, Append(inner.calls, s.predicate))
ParseRefined(s, obj) ==
  LET inner == Parse(s.children[1], obj)
  IN  IF ~inner.ok THEN inner
      ELSE LET result == Predicate(s.predicate, inner.value)
               message == IF result.result = "string" THEN result.message
                          ELSE "Validation failed"
               calls == Append(inner.calls, s.predicate)
           IN  IF result.result = "true" THEN Returned(inner.value, calls)
               ELSE Raised(<<Issue(<<>>, message, "")>>, calls)

\* DefaultSchema.parse
ParseDefault(s, obj) ==
  IF obj.type \in {"undefined", "null"} THEN Returned(s.defaultValue, <<>>)
  ELSE LET r == Parse(s.children[1], obj)
       IN  [r EXCEPT !.calls = <<"inner">>]

\* schema.parse(obj)
Parse(s, obj) ==
  CASE s.type = "string" -> ParseString(obj)
    [] s.type \in {"number", "integer"} -> ParseNumeric(s, obj)
    [] s.type = "optional" -> ParseOptional(s, obj)
    [] s.type = "object" -> ParseObject(s, obj)
    [] s.type = "union" -> ParseUnion(s, obj)
    [] s.type = "intersection" -> ParseIntersection(s, obj)
    [] s.type = "array" -> ParseArray(s, obj)
    [] s.type = "boolean" -> ParseBoolean(obj)
    [] s.type = "enum" -> ParseEnum(s, obj)
    [] s.type = "refined" -> ParseRefined(s, obj)
    [] s.type = "default" -> ParseDefault(s, obj)
    [] s.type = "doc" -> Parse(s.children[1], obj)

\* ------------------------------------------------------------------------
\* validation: the schemas and inputs under test
\* ------------------------------------------------------------------------
\* The field schemas of object shapes: string(), number() and
\* integer().min(0).optional().
FieldSchemas == {StringSchema, NumberSchema, OptionalSchema(WithMin(IntegerSchema, 0))}
Shapes == UNION {[S -> FieldSchemas] : S \in SUBSET Keys}
ObjectSchemas == {ObjectSchema(shape, lax) : shape \in Shapes, lax \in BOOLEAN}

\* The sub-schemas of unions and intersections.
Operands ==
  {StringSchema, NumberSchema, OptionalSchema(StringSchema),
   ObjectSchema([k \in {"a"} |-> StringSchema], FALSE),
   ObjectSchema([k \in {"b"} |-> NumberSchema], FALSE),
   ObjectSchema([k \in {"a"} |-> StringSchema], TRUE),
   ObjectSchema([k \in {"a"} |-> NumberSchema], TRUE)}
UnionSchemas == {UnionSchema(options) : options \in UNION {[1..n -> Operands] : n \in 0..MaxOptions}}
IntersectionSchemas == {IntersectionSchema(left, right) : left \in Operands, right \in Operands}
Schemas == ObjectSchemas \cup UnionSchemas \cup IntersectionSchemas

\* Inputs: primitives, and plain objects over the keys of the model.
PropertyValues == {JsString("x"), JsString("3"), JsNumber(-2)}
ObjectInputs == {JsObject(props) : props \in UNION {[S -> PropertyValues] : S \in SUBSET Keys}}
PrimitiveInputs == {JsUndefined, JsNull, JsString("x"), JsString(""), JsNumber(0), JsNumber(6)}
Inputs == ObjectInputs \cup PrimitiveInputs

\* Array schemas over an item schema, with no bound, min, max, both or
\* length, and the arrays handed to them.
ItemSchemas == {StringSchema, NumberSchema, WithMin(IntegerSchema, 0)}
ItemBounds == 0..MaxItems
ArraySchemas ==
  LET plain == {ArraySchema(item) : item \in ItemSchemas}
      withMin == plain \cup {ArrayMin(a, n) : a \in plain, n \in ItemBounds}
  IN  withMin \cup {ArrayMax(a, n) : a \in withMin, n \in ItemBounds}
              \cup {ArrayLength(a, n) : a \in plain, n \in ItemBounds}
ArrayInputs ==
  {JsArray(elems) : elems \in UNION {[1..n -> PropertyValues] : n \in 0..MaxItems}}
      \cup PrimitiveInputs \cup {JsObject(NoProps)}

\* Enum schemas of up to MaxOptions options, strings or numbers, and the
\* inputs handed to them and to boolean().
EnumOptions == {JsNumber(6), JsString("3"), JsNumber(8), JsString("4"), JsString("x")}
EnumSchemas ==
  {EnumSchema(options) : options \in UNION {[1..n -> EnumOptions] : n \in 0..MaxOptions}}
EnumInputs == EnumOptions \cup PrimitiveInputs \cup {JsObject(NoProps), JsBoolean(TRUE)}
BooleanInputs ==
  {JsBoolean(TRUE), JsBoolean(FALSE), JsString("true"), JsString("false")}
      \cup PrimitiveInputs \cup {JsObject(NoProps)}

\* number() and integer() with min and max chained in either order, the
\* bounds in halves; integer().min and integer().max throw for a bound that
\* is not an integer.
Values == (-2)..MaxValue
BoundsFor(s) == IF s.type = "integer" THEN {v \in Values : IsInteger(v)} ELSE Values
NumericSchemas ==
  LET plain == {NumberSchema, IntegerSchema}
      withMin == plain \cup {WithMin(s, a) : s \in plain, a \in Values}
      withMax == plain \cup {WithMax(s, b) : s \in plain, b \in Values}
      chained == {WithMax(s, b) : s \in withMin, b \in Values}
                   \cup {WithMin(s, a) : s \in withMax, a \in Values}
  IN  {s \in withMin \cup withMax \cup chained :
         /\ s.hasMin => s.minValue \in BoundsFor(s)
         /\ s.hasMax => s.maxValue \in BoundsFor(s)}
NumericInputs ==
  {JsNumber(v) : v \in Values} \cup {JsString(str) : str \in NumericStrings}
      \cup PrimitiveInputs \cup {JsObject(NoProps), JsBoolean(TRUE)}

\* Chains of 1 to MaxRefines refinements of a numeric schema.
RECURSIVE RefineAll(_, _)
RefineAll(s, fns) ==
  IF fns = <<>> THEN s ELSE RefineAll(RefinedSchema(s, Head(fns)), Tail(fns))
RefineSubjects == {NumberSchema, WithMin(NumberSchema, 0), IntegerSchema}
RefinedSchemas ==
  {RefineAll(s, fns) : s \in RefineSubjects,
                       fns \in UNION {[1..n -> PredicateNames] : n \in 1..MaxRefines}}

\* The pairs of a schema and an input under test.
ParseCases ==
  (Schemas \X Inputs) \cup (ArraySchemas \X ArrayInputs)
      \cup (EnumSchemas \X EnumInputs) \cup ({BooleanSchema} \X BooleanInputs)
      \cup (NumericSchemas \X NumericInputs)
      \cup (RefinedSchemas \X NumericInputs)

\* parsed = schema.parse(input)
DoParse ==
  /\ schema.type # "none"
  /\ parsed = NotParsed
  /\ parsed' = Parse(schema, input)
  /\ UNCHANGED <<schema, input, reparsed, derived, restVars,
                 counterVars, listenVars, pathVars, routeVars>>

\* reparsed = schema.parse(schema.parse(input))
DoParseAgain ==
  /\ parsed # NotParsed /\ parsed.ok
  /\ reparsed = NotParsed
  /\ reparsed' = Parse(schema, parsed.value)
  /\ UNCHANGED <<schema, input, parsed, derived, restVars,
                 counterVars, listenVars, pathVars, routeVars>>

\* The schemas that one modifier call on `s` can return.  OptionalSchema and
\* DefaultSchema have describe and array only, DocSchema has no modifier;
\* min and max belong to numbers and arrays, length to arrays.
DefaultValues == {JsNumber(0), JsString("x")}
Descriptions == {"Described"}
ModifierBounds == {0, 2}
ModifiersOf(s) ==
  (IF s.type \notin {"optional", "default", "doc"}
     THEN {OptionalSchema(s)} \cup {DefaultSchema(s, value) : value \in DefaultValues}
     ELSE {})
  \cup (IF s.type \in {"number", "integer", "refined"}
          THEN {RefinedSchema(s, fn) : fn \in PredicateNames} ELSE {})
  \cup (IF s.type # "doc"
          THEN {DocSchema(s, description) : description \in Descriptions}
                 \cup {ArraySchema(s)}
          ELSE {})
  \cup (IF s.type \in {"number", "integer"}
          THEN {WithMin(s, value) : value \in ModifierBounds}
                 \cup {WithMax(s, value) : value \in ModifierBounds}
          ELSE {})
  \cup (IF s.type = "array"
          THEN {ArrayMin(s, items) : items \in ModifierBounds}
                 \cup {ArrayMax(s, items) : items \in ModifierBounds}
                 \cup {ArrayLength(s, items) : items \in ModifierBounds}
          ELSE {})

\* The schemas that modifiers are called on first, and the inputs their
\* parse is observed on.
ModifierSubjects ==
  {StringSchema, NumberSchema, WithMin(IntegerSchema, 0), BooleanSchema,
   EnumSchema(<<JsNumber(6), JsString("4")>>), ArraySchema(NumberSchema)}
ModifierInputs ==
  {JsUndefined, JsNull, JsString("3"), JsString("x"), JsNumber(-2), JsNumber(8),
   JsBoolean(TRUE), JsArray(<<>>), JsArray(<<JsString("x")>>),
   JsObject([k \in {"a"} |-> JsString("x")])}

\* A modifier call on the schema or on a schema that an earlier call
\* returned: it constructs a schema around `target` and assigns to no field
\* of `target`.
ModifyInPlace ==
  /\ schema.type # "none"
  /\ Len(derived) < MaxModifiers
  /\ \E result \in ModifiersOf(schema) :
       /\ derived' = Append(derived, result)
       /\ schema' = result
  /\ UNCHANGED <<input, parsed, reparsed, restVars,
                 counterVars, listenVars, pathVars, routeVars>>
Modify ==
  /\ schema.type # "none"
  /\ Len(derived) < MaxModifiers
  /\ \E target \in {schema} \cup {derived[i] : i \in 1..Len(derived)} :
       \E result \in ModifiersOf(target) :
         derived' = Append(derived, result)
  /\ UNCHANGED <<schema, input, parsed, reparsed, restVars,
                 counterVars, listenVars, pathVars, routeVars>>

\* ------------------------------------------------------------------------
\* routing/rest.ts: ConcreteRestEndpoint.handle

NoEndpoint ==
  [contentType |-> "", body |-> NoSchema, params |-> NoProps, query |-> NoProps,
   headers |-> NoProps]
NoRequest ==
  [body |-> "empty", json |-> JsUndefined, contentType |-> "",
   params |-> NoProps, query |-> NoProps, headers |-> NoProps]
NotHandled ==
  [status |-> 0, message |-> <<>>, issues |-> <<>>, calls |-> <<>>,
   doCalled |-> FALSE, args |-> <<>>]

\* path.join('.'), as the sequence of its pieces
RECURSIVE JoinDot(_)
JoinDot(path) ==
  IF Len(path) = 0 THEN <<>>
  ELSE IF Len(path) = 1 THEN <<path[1]>>
  ELSE <<path[1], ".">> \o JoinDot(Tail(path))

\* ValidationError.formatIssues: 'Error at (path): (message).' for each issue,
\* joined with a space; the string as the sequence of its pieces.
RECURSIVE FormatIssues(_)
FormatIssues(issues) ==
  IF Len(issues) = 0 THEN <<>>
  ELSE LET issue == Head(issues)
           one == <<"Error at ">> \o JoinDot(issue.path)
                    \o <<": ", issue.message, issue.detail, ".">>
       IN  IF Len(issues) = 1 THEN one ELSE one \o <<" ">> \o FormatIssues(Tail(issues))

\* req.headers['content-type'] ?? 'application/octet-stream'; the request
\* holds the content-type header apart from the other headers.
ContentTypeOf(req) ==
  IF req.contentType = "" THEN "application/octet-stream" ELSE req.contentType

\* JsonBody.deserialize, and what handle catches from it: the body schema
\* parses {} for an empty body; a content type other than the endpoint's is
\* a ValidationError; JSON.parse raises a SyntaxError for a malformed body,
\* of which handle makes one issue with the error's message.
Deserialize(ep, req) ==
  IF req.body = "empty" THEN Parse(ep.body, JsObject(NoProps))
  ELSE IF ContentTypeOf(req) # ep.contentType
    THEN Raised(<<Issue(<<>>, "Expected content type", ContentTypeOf(req))>>, <<>>)
  ELSE IF req.body = "malformed"
    THEN Raised(<<Issue(<<>>, "SyntaxError", "")>>, <<>>)
  ELSE Parse(ep.body, req.json)

\* The constructor's paramsSchema, querySchema (strict) and headersSchema
\* (lax).
ParamsSchema(ep) == ObjectSchema(ep.params, FALSE)
QuerySchema(ep) == ObjectSchema(ep.query, FALSE)
HeadersSchema(ep) == ObjectSchema(ep.headers, TRUE)

\* ConcreteRestEndpoint.handle: the four validations in turn, each in its
\* own try, then BadRequestError(error.format()) when an issue was pushed,
\* and options.do otherwise.
HandleOutcomeStopsAtFirst(ep, req) ==
  LET body == Deserialize(ep, req)
      params == Parse(ParamsSchema(ep), JsObject(req.params))
      query == Parse(QuerySchema(ep), JsObject(req.query))
      headers == Parse(HeadersSchema(ep), JsObject(req.headers))
      issues == IF Len(body.issues) > 0 THEN WithPrefix(body.issues, "body")
                ELSE IF Len(params.issues) > 0 THEN WithPrefix(params.issues, "params")
                ELSE IF Len(query.issues) > 0 THEN WithPrefix(query.issues, "query")
                ELSE WithPrefix(headers.issues, "headers")
  IN  IF Len(issues) > 0
        THEN [status |-> 400, message |-> FormatIssues(issues), issues |-> issues,
              calls |-> <<"body", "params", "query", "headers">>,
              doCalled |-> FALSE, args |-> <<>>]
        ELSE [status |-> 200, message |-> <<>>, issues |-> <<>>,
              calls |-> <<"body", "params", "query", "headers">>, doCalled |-> TRUE,
              args |-> <<body.value, params.value, query.value, headers.value>>]
HandleOutcome(ep, req) ==
  LET body == Deserialize(ep, req)
      params == Parse(ParamsSchema(ep), JsObject(req.params))
      query == Parse(QuerySchema(ep), JsObject(req.query))
      headers == Parse(HeadersSchema(ep), JsObject(req.headers))
      issues == WithPrefix(body.issues, "body") \o WithPrefix(params.issues, "params")
                  \o WithPrefix(query.issues, "query")
                  \o WithPrefix(headers.issues, "headers")
  IN  IF Len(issues) > 0
        THEN [status |-> 400, message |-> FormatIssues(issues), issues |-> issues,
              calls |-> <<"body", "params", "query", "headers">>,
              doCalled |-> FALSE, args |-> <<>>]
        ELSE [status |-> 200, message |-> <<>>, issues |-> <<>>,
              calls |-> <<"body", "params", "query", "headers">>, doCalled |-> TRUE,
              args |-> <<body.value, params.value, query.value, headers.value>>]

\* Endpoints with a JSON body, and requests to them.
BodySchemas ==
  {ObjectSchema(NoProps, FALSE), ObjectSchema([k \in {"a"} |-> StringSchema], FALSE),
   IntersectionSchema(StringSchema, StringSchema)}
ParamShapes == {NoProps, [k \in {"a"} |-> NumberSchema]}
QueryShapes == {NoProps, [k \in {"b"} |-> OptionalSchema(StringSchema)]}
HeaderShapes == {NoProps, [k \in {"a"} |-> StringSchema]}
Endpoints ==
  {[contentType |-> "application/json", body |-> b, params |-> p, query |-> q,
    headers |-> h] :
     b \in BodySchemas, p \in ParamShapes, q \in QueryShapes, h \in HeaderShapes}
RequestBodies ==
  {[body |-> "empty", json |-> JsUndefined], [body |-> "malformed", json |-> JsUndefined]}
    \cup {[body |-> "json", json |-> v] :
            v \in {JsObject(NoProps), JsObject([k \in {"a"} |-> JsString("x")]),
                   JsObject([k \in {"a"} |-> JsNumber(6)]), JsString(""), JsString("x")}}
ContentTypes == {"application/json", "text/plain", ""}
RequestParams == {NoProps, [k \in {"a"} |-> JsString("3")], [k \in {"a"} |-> JsString("x")]}
RequestQueries == {NoProps, [k \in {"b"} |-> JsString("x")], [k \in {"a"} |-> JsString("x")]}
RequestHeaders == {NoProps, [k \in {"a"} |-> JsString("x")]}
RestRequests ==
  {[body |-> b.body, json |-> b.json, contentType |-> ct, params |-> p, query |-> q,
    headers |-> h] :
     b \in RequestBodies, ct \in ContentTypes, p \in RequestParams,
     q \in RequestQueries, h \in RequestHeaders}

\* handled = endpoint.handle(request)
Handle ==
  /\ endpoint # NoEndpoint
  /\ handled = NotHandled
  /\ handled' = HandleOutcome(endpoint, request)
  /\ UNCHANGED <<endpoint, request, validationVars,
                 counterVars, listenVars, pathVars, routeVars>>

\* ------------------------------------------------------------------------
\* Specifications
\* ------------------------------------------------------------------------
Init ==
  /\ count = 0
  /\ resolve = 0
  /\ promise = [w \in Waiters |-> "none"]
  /\ listening = TRUE
  /\ reqState = [r \in Requests |-> "idle"]
  /\ stopState = [s \in Waiters |-> "none"]
  /\ pathInput = <<>>
  /\ pathObj = NoPath
  /\ matchRes = NoMatchYet
  /\ restRoutes = <<>>
  /\ serveFiles = {}
  /\ serveFallback = FALSE
  /\ response = NoResponse
  /\ schema = NoSchema
  /\ input = JsUndefined
  /\ parsed = NotParsed
  /\ reparsed = NotParsed
  /\ derived = <<>>
  /\ endpoint = NoEndpoint
  /\ request = NoRequest
  /\ handled = NotHandled

\* Yedra.loadServe: a fallback given as a file name becomes the '__fallback'
\* file, a fallback given as a function becomes ServeData.fallback.
InitApp ==
  /\ count = 0
  /\ resolve = 0
  /\ promise = [w \in Waiters |-> "none"]
  /\ listening = TRUE
  /\ reqState = [r \in Requests |-> "idle"]
  /\ stopState = [s \in Waiters |-> "none"]
  /\ pathInput = <<>>
  /\ pathObj = NoPath
  /\ matchRes = NoMatchYet
  /\ restRoutes = <<>>
  /\ \E config \in ServeConfigs :
       serveFiles = config.files /\ serveFallback = config.fallback
  /\ response = NoResponse
  /\ schema = NoSchema
  /\ input = JsUndefined
  /\ parsed = NotParsed
  /\ reparsed = NotParsed
  /\ derived = <<>>
  /\ endpoint = NoEndpoint
  /\ request = NoRequest
  /\ handled = NotHandled

\* A Router over the registered endpoints.
NextRouter ==
  \/ \E pattern \in RoutePatterns, method \in RouteMethods : Use(pattern, method)
  \/ \E method \in RequestMethods, url \in RequestPaths : RouterHandle(method, url)

SpecRouter == Init /\ [][NextRouter]_vars

\* A BuiltApp over the registered routes.
NextApp ==
  \/ \E pattern \in RoutePatterns, method \in RouteMethods : Use(pattern, method)
  \/ \E method \in RequestMethods, url \in RequestPaths : PerformRequest(method, url)

SpecApp == InitApp /\ [][NextApp]_vars

InitPath ==
  /\ count = 0
  /\ resolve = 0
  /\ promise = [w \in Waiters |-> "none"]
  /\ listening = TRUE
  /\ reqState = [r \in Requests |-> "idle"]
  /\ stopState = [s \in Waiters |-> "none"]
  /\ pathInput \in PatternInputs
  /\ pathObj = NoPath
  /\ matchRes = NoMatchYet
  /\ restRoutes = <<>>
  /\ serveFiles = {}
  /\ serveFallback = FALSE
  /\ response = NoResponse
  /\ schema = NoSchema
  /\ input = JsUndefined
  /\ parsed = NotParsed
  /\ reparsed = NotParsed
  /\ derived = <<>>
  /\ endpoint = NoEndpoint
  /\ request = NoRequest
  /\ handled = NotHandled

NextPath ==
  \/ Construct
  \/ \E path \in ConcretePaths : DoMatch(path)

SpecPath == InitPath /\ [][NextPath]_vars

NextCounter ==
  \/ \E w \in Waiters : CounterWait(w)
  \/ CounterIncrement
  \/ CounterDecrement

SpecCounter == Init /\ [][NextCounter]_vars

NextListen ==
  \/ \E r \in Requests : OnRequest(r)
  \/ \E r \in Requests : HandleEnd(r)
  \/ \E r \in Requests : OnClose(r)
  \/ \E s \in Waiters : Stop(s)
  \/ \E s \in Waiters : StopThen(s)

SpecListen == Init /\ [][NextListen]_vars

InitValidation ==
  /\ count = 0
  /\ resolve = 0
  /\ promise = [w \in Waiters |-> "none"]
  /\ listening = TRUE
  /\ reqState = [r \in Requests |-> "idle"]
  /\ stopState = [s \in Waiters |-> "none"]
  /\ pathInput = <<>>
  /\ pathObj = NoPath
  /\ matchRes = NoMatchYet
  /\ restRoutes = <<>>
  /\ serveFiles = {}
  /\ serveFallback = FALSE
  /\ response = NoResponse
  /\ \E case \in ParseCases : schema = case[1] /\ input = case[2]
  /\ parsed = NotParsed
  /\ reparsed = NotParsed
  /\ derived = <<>>
  /\ endpoint = NoEndpoint
  /\ request = NoRequest
  /\ handled = NotHandled

NextValidation == DoParse \/ DoParseAgain

\* Modifier calls on a schema, and a parse with it.
InitModifiers ==
  /\ count = 0
  /\ resolve = 0
  /\ promise = [w \in Waiters |-> "none"]
  /\ listening = TRUE
  /\ reqState = [r \in Requests |-> "idle"]
  /\ stopState = [w \in Waiters |-> "none"]
  /\ pathInput = <<>>
  /\ pathObj = NoPath
  /\ matchRes = NoMatchYet
  /\ restRoutes = <<>>
  /\ serveFiles = {}
  /\ serveFallback = FALSE
  /\ response = NoResponse
  /\ schema \in ModifierSubjects
  /\ input \in ModifierInputs
  /\ parsed = NotParsed
  /\ reparsed = NotParsed
  /\ derived = <<>>
  /\ endpoint = NoEndpoint
  /\ request = NoRequest
  /\ handled = NotHandled

NextModifiers == Modify \/ DoParse

SpecModifiers == InitModifiers /\ [][NextModifiers]_vars

\* An endpoint handling a request.
InitRest ==
  /\ count = 0
  /\ resolve = 0
  /\ promise = [w \in Waiters |-> "none"]
  /\ listening = TRUE
  /\ reqState = [r \in Requests |-> "idle"]
  /\ stopState = [w \in Waiters |-> "none"]
  /\ pathInput = <<>>
  /\ pathObj = NoPath
  /\ matchRes = NoMatchYet
  /\ restRoutes = <<>>
  /\ serveFiles = {}
  /\ serveFallback = FALSE
  /\ response = NoResponse
  /\ schema = NoSchema
  /\ input = JsUndefined
  /\ parsed = NotParsed
  /\ reparsed = NotParsed
  /\ derived = <<>>
  /\ endpoint \in Endpoints
  /\ request \in RestRequests
  /\ handled = NotHandled

NextRest == Handle

SpecRest == InitRest /\ [][NextRest]_vars

SpecValidation == InitValidation /\ [][NextValidation]_vars

Next ==
  \/ NextCounter \/ NextListen \/ NextPath \/ NextRouter \/ NextApp
  \/ NextValidation \/ NextModifiers \/ NextRest

Spec == Init /\ [][Next]_vars

\* ------------------------------------------------------------------------
\* Properties
\* ------------------------------------------------------------------------

\* C1: a wait() called at count 0 is resolved at once; called at a positive
\* count it is pending, and while no later wait() replaced it, it stays
\* pending over every increment/decrement until the decrement that brings the
\* count to 0, which resolves it.
C1_WaitResolvesAtZero ==
  [][\A w \in Waiters :
       /\ (promise[w] = "none" /\ promise'[w] # "none")
            => promise'[w] = (IF count = 0 THEN "resolved" ELSE "pending")
       /\ (promise[w] = "pending" /\ resolve = w /\ count > 0 /\ count' # count)
            => promise'[w] = (IF count' = 0 THEN "resolved" ELSE "pending")]_vars

\* C1 witness: a wait() that was pending has been resolved by a decrement to 0.
C1_Witness == \E w \in Waiters : resolve = w /\ promise[w] = "resolved" /\ count = 0

\* C2: a stop() never completes while a started request is not closed, and
\* once every started request has closed every stop() in progress has its
\* wait() resolved (so that it completes).
C2_StopWaitsForRequests ==
  \A s \in Waiters :
    /\ stopState[s] = "done" => ActiveRequests = {}
    /\ (stopState[s] = "waiting" /\ ActiveRequests = {}) => promise[s] = "resolved"

\* C3: whenever the count is 0, no wait() is still pending: all the waiters
\* that were pending have been resolved, not only the most recent one.
C3_AllWaitersResolved ==
  count = 0 => \A w \in Waiters : promise[w] # "pending"

\* The route table the last request was resolved against.
Scanned == SubSeq(restRoutes, 1, response.scanned)

\* Entries of the scanned table whose pattern matches the request path, and
\* those among them with the request method, for BuiltApp.
AppMatching == {i \in 1..Len(Scanned) : MatchScored(Scanned[i].path, response.url).matched}
AppCandidates == {i \in AppMatching : Scanned[i].method = response.method}
AppScore(i) == MatchScored(Scanned[i].path, response.url).score

\* The same for Router; its score is the number of keys of the params record.
RouterMatching == {i \in 1..Len(Scanned) : Match(Scanned[i].path, response.url).matched}
RouterCandidates == {i \in RouterMatching : Scanned[i].method = response.method}
RouterScore(i) == Cardinality(DOMAIN Match(Scanned[i].path, response.url).params)

AppRequest == response.by = "app" /\ response.method \in Methods
RouterRequest == response.by = "router" /\ response.method \in Methods

\* A GET request that the static files or the serve fallback answer when no
\* route is selected.
ServedStatically ==
  /\ response.method = "GET"
  /\ response.url \in serveFiles \/ FallbackKey \in serveFiles \/ serveFallback

IsLiteralPath(expected) ==
  \A k \in 1..Len(expected) :
    ~StartsWith(expected[k], ":") /\ ~EndsWith(expected[k], "?") /\ expected[k] # <<"*">>
HasWildcard(expected) == \E k \in 1..Len(expected) : expected[k] = <<"*">>

\* The scans of both dispatchers applied to any request over a table.
RouterSelect(table, method, url) == MatchEndpoint(table, url, method).result
AppSelect(table, method, url) == MatchRestRoute(table, url, method).result

IsFirstMinimum(i, cands, score(_)) ==
  /\ i \in cands
  /\ \A j \in cands : score(i) <= score(j)
  /\ \A j \in cands : score(j) = score(i) => i <= j

C7_WildcardLeastSpecific ==
  (RouterRequest /\ response.kind = "handled" /\ HasWildcard(Scanned[response.route].path)) =>
    \A i \in RouterCandidates : HasWildcard(Scanned[i].path)

InputSegments == Split(Substring1(pathInput))
Constructed == pathObj # NoPath

\* C9: a pattern with a '*' segment that is not the final segment is rejected
\* by the constructor, and no constructed Path has a non-final '*' segment.
C9_WildcardOnlyLast ==
  Constructed =>
    /\ (\E i \in 1..(Len(InputSegments) - 1) : InputSegments[i] = <<"*">>) => ~pathObj.ok
    /\ pathObj.ok =>
         \A i \in 1..(Len(pathObj.expected) - 1) : pathObj.expected[i] # <<"*">>

\* C9 witness: a well-formed pattern was rejected for its non-final wildcard.
C9_Witness ==
  /\ pathObj.error = "wildcard"
  /\ \E i \in 1..(Len(InputSegments) - 1) : InputSegments[i] = <<"*">>

\* C10: a pattern in which a segment without trailing '?' follows a segment
\* with trailing '?' is rejected, and in every constructed Path every segment
\* after the first optional one is optional.
C10_OptionalsAreTrailing ==
  Constructed =>
    /\ (\E i, j \in 1..Len(InputSegments) :
          i < j /\ EndsWith(InputSegments[i], "?") /\ ~EndsWith(InputSegments[j], "?"))
         => ~pathObj.ok
    /\ pathObj.ok =>
         \A i, j \in 1..Len(pathObj.expected) :
           (i < j /\ EndsWith(pathObj.expected[i], "?")) => EndsWith(pathObj.expected[j], "?")

\* C10 witness: a pattern was rejected because a required segment follows an
\* optional one that is not directly before it.
C10_Witness ==
  /\ pathObj.error = "optional"
  /\ \E i \in 1..Len(InputSegments) :
       /\ i + 2 <= Len(InputSegments)
       /\ EndsWith(InputSegments[i], "?")
       /\ EndsWith(InputSegments[i + 1], "?")
       /\ ~EndsWith(InputSegments[i + 2], "?")

\* ------------------------------------------------------------------------
\* Path construction and matching (C11..C15)
\* ------------------------------------------------------------------------

\* A whole segment matching ^((:?[a-z0-9-]+\??)|\*)$.
IsWellFormedSegment(part) ==
  \/ part = <<"*">>
  \/ LET s1 == IF StartsWith(part, ":") THEN Substring1(part) ELSE part
         s2 == StripOptional(s1)
     IN  Len(s2) >= 1 /\ \A k \in 1..Len(s2) : s2[k] \in LowerAlnum \cup {"-"}

\* The last call of match: the segments of the concrete path and of the
\* compiled pattern.
Actual == Split(Substring1(matchRes.path))
Expected == pathObj.expected
MatchCalled == pathObj.ok /\ matchRes.called
IsParamSegment(part) == StartsWith(part, ":")
IsRequiredSegment(part) == part # <<"*">> /\ ~EndsWith(part, "?")

\* Concrete segment i agrees with pattern segment i: a parameter accepts
\* anything, a literal (optional or not) its own text up to letter case.
Agrees(i) ==
  \/ IsParamSegment(Expected[i])
  \/ ToLowerCase(Actual[i]) = ToLowerCase(StripOptional(Expected[i]))

\* C11: a constructed Path has only segments that, taken as a whole, match
\* ^((:?[a-z0-9-]+\??)|\*)$; a pattern with any other segment is rejected.
C11_SegmentsWellFormed ==
  (Constructed /\ StartsWith(pathInput, "/")) =>
    (pathObj.ok => \A i \in 1..Len(InputSegments) : IsWellFormedSegment(InputSegments[i]))

\* C12: after a successful match, every parameter segment aligned with a
\* concrete segment is a key of the result under its normalized name (no
\* leading ':', no trailing '?'), and holds that concrete segment unless a
\* later parameter of the same name overwrote it.
C12_ParamsUnderNormalizedName ==
  (MatchCalled /\ matchRes.result.matched) =>
    \A i \in 1..Len(Actual) :
      (i <= Len(Expected) /\ IsParamSegment(Expected[i])) =>
        /\ ParamName(Expected[i]) \in DOMAIN matchRes.result.params
        /\ (\A j \in (i + 1)..Len(Actual) :
              (j <= Len(Expected) /\ IsParamSegment(Expected[j]))
                => ParamName(Expected[j]) # ParamName(Expected[i]))
             => matchRes.result.params[ParamName(Expected[i])] = Actual[i]

\* C13: a pattern without wildcard whose trailing segments are optional
\* matches every concrete path that supplies all its required segments and
\* any number of its optional ones, each agreeing with its pattern segment,
\* and matches no path with fewer or more segments than that.
C13_OptionalSegments ==
  (MatchCalled /\ (\E i \in 1..Len(Expected) : EndsWith(Expected[i], "?"))) =>
    LET required == Cardinality({i \in 1..Len(Expected) : ~EndsWith(Expected[i], "?")})
    IN  matchRes.result.matched <=>
          /\ required <= Len(Actual) /\ Len(Actual) <= Len(Expected)
          /\ \A i \in 1..Len(Actual) : Agrees(i)

\* C14: a pattern ending in '*' matches exactly the concrete paths whose
\* leading segments agree with the segments before the '*', followed by zero
\* or more further segments.
C14_WildcardMatchesRest ==
  (MatchCalled /\ Expected[Len(Expected)] = <<"*">>) =>
    (matchRes.result.matched <=>
       /\ Len(Actual) >= Len(Expected) - 1
       /\ \A i \in 1..(Len(Expected) - 1) : Agrees(i))

\* C15: match returns no match when the concrete path has more segments
\* than a pattern without trailing wildcard, and when the concrete path ends
\* before a required pattern segment; a matched literal segment equals its
\* concrete segment up to letter case.
C15_NoMatchCases ==
  MatchCalled =>
    /\ (Len(Actual) > Len(Expected) /\ Expected[Len(Expected)] # <<"*">>)
         => ~matchRes.result.matched
    /\ (\E j \in (Len(Actual) + 1)..Len(Expected) : IsRequiredSegment(Expected[j]))
         => ~matchRes.result.matched
    /\ matchRes.result.matched =>
         \A i \in 1..Len(Actual) :
           (i <= Len(Expected) /\ IsRequiredSegment(Expected[i]) /\ ~IsParamSegment(Expected[i]))
             => ToLowerCase(Actual[i]) = ToLowerCase(Expected[i])

\* C15 witness: a concrete path that agrees with the pattern as far as it
\* goes was refused because a required segment was left unconsumed, after a
\* literal matched a segment written in upper case.
C15_Witness ==
  /\ MatchCalled /\ ~matchRes.result.matched
  /\ Len(Actual) < Len(Expected)
  /\ IsRequiredSegment(Expected[Len(Actual) + 1])
  /\ \A i \in 1..Len(Actual) : Agrees(i)
  /\ \E i \in 1..Len(Actual) : ~IsParamSegment(Expected[i]) /\ Actual[i] # Expected[i]

\* ------------------------------------------------------------------------
\* Object, union and intersection schemas (C16..C20)
\* ------------------------------------------------------------------------
Parsed == parsed # NotParsed
ObjectParsed == Parsed /\ schema.type = "object" /\ input.type = "object"

\* The input keys that the shape does not declare, and the declared fields
\* that the input does not have.
ExtraKeys == (DOMAIN input.props) \ (DOMAIN schema.shape)
AbsentFields == (DOMAIN schema.shape) \ (DOMAIN input.props)

\* The positions of the issues of an outcome at a path, or below a field.
IssuesAt(outcome, path, message) ==
  {i \in 1..Len(outcome.issues) :
     outcome.issues[i].path = path /\ outcome.issues[i].message = message}
IssuesBelow(outcome, prop) ==
  {i \in 1..Len(outcome.issues) :
     outcome.issues[i].path # <<>> /\ outcome.issues[i].path[1] = prop}
ContainsIssues(outcome, expected) ==
  \A j \in 1..Len(expected) : \E i \in 1..Len(outcome.issues) : outcome.issues[i] = expected[j]

\* C16: when the input has a key that the shape does not declare, the strict
\* object schema fails with exactly one 'Unrecognized' issue at that key, and
\* the lax schema of the same shape is not affected by the key: it succeeds
\* when the declared fields are valid, and its result does not hold the key.
C16_StrictRejectsLaxDrops ==
  (ObjectParsed /\ ExtraKeys # {}) =>
    LET strict == IF schema.lax THEN Parse(ObjectSchema(schema.shape, FALSE), input) ELSE parsed
        lax == IF schema.lax THEN parsed ELSE Parse(ObjectSchema(schema.shape, TRUE), input)
    IN  /\ ~strict.ok
        /\ \A k \in ExtraKeys : Cardinality(IssuesAt(strict, <<k>>, "Unrecognized")) = 1
        /\ lax.ok <=> (\A i \in 1..Len(strict.issues) : strict.issues[i].message = "Unrecognized")
        /\ lax.ok => (DOMAIN lax.value.props) \cap ExtraKeys = {}

\* The issues C17 lists for one declared field.
FieldIssues(prop) ==
  IF prop \in AbsentFields
    THEN IF IsOptionalSchema(schema.shape[prop]) THEN <<>>
         ELSE <<Issue(<<prop>>, "Required", "")>>
    ELSE WithPrefix(Parse(schema.shape[prop], input.props[prop]).issues, prop)

\* C17: the raised error holds the issues of every declared field that is
\* missing or fails its schema, prefixed with the field name, and in strict
\* mode one 'Unrecognized' issue for every undeclared input key; the parse
\* succeeds only when there is no such issue.
C17_AllIssuesCollected ==
  ObjectParsed =>
    /\ \A prop \in DOMAIN schema.shape : ContainsIssues(parsed, FieldIssues(prop))
    /\ ~schema.lax =>
         \A k \in ExtraKeys : Cardinality(IssuesAt(parsed, <<k>>, "Unrecognized")) = 1
    /\ parsed.ok =>
         /\ \A prop \in DOMAIN schema.shape : FieldIssues(prop) = <<>>
         /\ ~schema.lax => ExtraKeys = {}

\* C18: a declared field absent from the input gives exactly one 'Required'
\* issue at its path, without its schema being invoked, when its schema is
\* not optional, and gives no issue and the value undefined in the result
\* when its schema is optional; a present field that fails its optional
\* schema gives the issues of that schema at the field's path.
C18_AbsentAndOptionalFields ==
  ObjectParsed =>
    \A prop \in DOMAIN schema.shape :
      LET optional == IsOptionalSchema(schema.shape[prop])
      IN  /\ (prop \in AbsentFields /\ ~optional) =>
                /\ Cardinality(IssuesAt(parsed, <<prop>>, "Required")) = 1
                /\ Cardinality(IssuesBelow(parsed, prop)) = 1
                /\ \A i \in 1..Len(parsed.calls) : parsed.calls[i] # prop
          /\ (prop \in AbsentFields /\ optional) =>
                /\ IssuesBelow(parsed, prop) = {}
                /\ parsed.ok =>
                     (prop \in DOMAIN parsed.value.props /\ parsed.value.props[prop] = JsUndefined)
          /\ (prop \notin AbsentFields /\ optional) =>
                LET child == Parse(schema.shape[prop], input.props[prop])
                IN  ~child.ok =>
                      /\ ~parsed.ok
                      /\ ContainsIssues(parsed, WithPrefix(child.issues, prop))
                      /\ Cardinality(IssuesBelow(parsed, prop)) = Len(child.issues)

\* The outcomes of the alternatives of the union under test on the input.
OptionOutcome(i) == Parse(schema.children[i], input)
RECURSIVE OptionIssues(_)
OptionIssues(n) == IF n = 0 THEN <<>> ELSE OptionIssues(n - 1) \o OptionOutcome(n).issues

\* C19: a union returns the result of the first alternative, in declared
\* order, that succeeds, and tries no later alternative; when every
\* alternative fails it raises the issues of all alternatives, concatenated
\* in declared order.
C19_UnionFirstSuccessOrAllIssues ==
  (Parsed /\ schema.type = "union") =>
    LET n == Len(schema.children)
        succeeding == {i \in 1..n : OptionOutcome(i).ok}
    IN  /\ succeeding # {} =>
             LET first == CHOOSE i \in succeeding : \A j \in succeeding : i <= j
             IN  /\ parsed.ok
                 /\ parsed.value = OptionOutcome(first).value
                 /\ parsed.calls = [k \in 1..first |-> IndexName[k]]
        /\ succeeding = {} =>
             /\ ~parsed.ok
             /\ parsed.issues = OptionIssues(n)
             /\ parsed.calls = [k \in 1..n |-> IndexName[k]]

\* C19 witness: union(string(), number()).parse({}) raised exactly two
\* issues, the string schema's before the number schema's.
C19_Witness ==
  /\ Parsed /\ schema = UnionSchema(<<StringSchema, NumberSchema>>)
  /\ input = JsObject(NoProps)
  /\ ~parsed.ok /\ Len(parsed.issues) = 2
  /\ parsed.issues[1].message = "Expected string but got"
  /\ parsed.issues[2].message = "Expected number but got"

\* C20: an intersection runs both sub-schemas, succeeds exactly when both
\* succeed, then returns the merge of both results in which the right result
\* wins on a common key, and otherwise raises the left issues followed by the
\* right issues.
C20_IntersectionBothSides ==
  (Parsed /\ schema.type = "intersection") =>
    LET l == Parse(schema.children[1], input)
        r == Parse(schema.children[2], input)
    IN  /\ parsed.calls = <<"left", "right">>
        /\ parsed.ok <=> (l.ok /\ r.ok)
        /\ (parsed.ok /\ l.value.type = "object" /\ r.value.type = "object") =>
             /\ DOMAIN parsed.value.props = (DOMAIN l.value.props) \cup (DOMAIN r.value.props)
             /\ \A k \in DOMAIN parsed.value.props :
                  parsed.value.props[k] =
                    IF k \in DOMAIN r.value.props THEN r.value.props[k] ELSE l.value.props[k]
        /\ ~parsed.ok => parsed.issues = l.issues \o r.issues

\* ------------------------------------------------------------------------
\* Validation errors, arrays, enums and numbers (C21..C26)
\* ------------------------------------------------------------------------

\* C21: every ValidationError raised by a parse carries at least one issue.
C21_ErrorsCarryIssues ==
  (Parsed /\ ~parsed.ok) => Len(parsed.issues) >= 1

ArrayParsed == Parsed /\ schema.type = "array"
ItemOutcome(i) == Parse(schema.children[1], input.props[i])
RECURSIVE ItemIssues(_)
ItemIssues(n) ==
  IF n = 0 THEN <<>>
  ELSE ItemIssues(n - 1) \o WithPrefix(ItemOutcome(n).issues, IndexName[n])
HasPath(issue) == issue.path # <<>>

\* C22: an array schema applies the item schema to every element of an input
\* array, also after an element has failed; when an element fails the parse
\* raises, and the raised issues hold, in index order, the issues of every
\* failing element under its decimal index.  An input that is not an array
\* fails with a single issue at the empty path.
C22_ArrayCollectsElementIssues ==
  ArrayParsed =>
    IF input.type # "array"
      THEN ~parsed.ok /\ Len(parsed.issues) = 1 /\ parsed.issues[1].path = <<>>
      ELSE /\ parsed.calls = [k \in 1..Len(input.props) |-> IndexName[k]]
           /\ Len(ItemIssues(Len(input.props))) > 0 =>
                 /\ ~parsed.ok
                 /\ SelectSeq(parsed.issues, HasPath) = ItemIssues(Len(input.props))

\* C23: an array schema with min, max or length accepts an input only if the
\* input is an array whose length satisfies every bound that documentation()
\* reports as minItems and maxItems, for every bound value including 0.
C23_ArrayBoundsEnforced ==
  (ArrayParsed /\ parsed.ok) =>
    LET doc == ArrayDocumentation(schema)
    IN  /\ input.type = "array"
        /\ doc.hasMinItems => Len(input.props) >= doc.minItems
        /\ doc.hasMaxItems => Len(input.props) <= doc.maxItems

EnumParsed == Parsed /\ schema.type = "enum"
\* The declared options whose string form is the string form of the input.
MatchingOptions ==
  {i \in DOMAIN schema.options : ToStringOf(schema.options[i]) = ToStringOf(input)}

\* C24: an enum schema compares the string forms: for a string or number
\* input it returns a declared option, as declared, whose string form equals
\* the input's string form; it fails when no option has that string form and
\* when the input is neither a string nor a number.
C24_EnumMatchesStringified ==
  EnumParsed =>
    IF TypeOf(input) \notin {"string", "number"} THEN ~parsed.ok
    ELSE IF MatchingOptions = {} THEN ~parsed.ok
    ELSE parsed.ok /\ \E i \in MatchingOptions : parsed.value = schema.options[i]

\* enum(3, '4') has parsed '3' and returned the number 3.
C24_Witness ==
  /\ EnumParsed /\ schema = EnumSchema(<<JsNumber(6), JsString("4")>>)
  /\ input = JsString("3") /\ parsed.ok /\ parsed.value = JsNumber(6)

NumericParsed == Parsed /\ schema.type \in {"number", "integer"}
IsNumericInput ==
  TypeOf(input) = "number" \/ (TypeOf(input) = "string" /\ input.str \in NumericStrings)
\* The number, in halves, that a numeric input denotes.
Denoted == IF TypeOf(input) = "number" THEN input.num ELSE ParseFloat(input.str).num
WithinBounds(x, hasMin, a, hasMax, b) == (hasMin => a <= x) /\ (hasMax => x <= b)

\* C25: a number or integer schema with min(a) and max(b), chained in either
\* order, accepts a numeric input exactly when its value x has a <= x <= b
\* and, for integer, x is integral; every returned value is a number within
\* the minimum and maximum that documentation() reports.
C25_NumericBounds ==
  NumericParsed =>
    LET doc == NumericDocumentation(schema)
    IN  /\ IsNumericInput =>
              (parsed.ok <=>
                 /\ WithinBounds(Denoted, schema.hasMin, schema.minValue,
                                 schema.hasMax, schema.maxValue)
                 /\ schema.type = "integer" => Denoted % 2 = 0)
        /\ parsed.ok =>
              /\ parsed.value.type = "number"
              /\ WithinBounds(parsed.value.num, doc.hasMinimum, doc.minimum,
                              doc.hasMaximum, doc.maximum)

\* integer().max(3).min(0) has parsed '3', and number().min(0).max(2) has
\* the same bounds as number().max(2).min(0).
C25_Witness ==
  /\ NumericParsed /\ schema = WithMin(WithMax(IntegerSchema, 6), 0)
  /\ schema = WithMax(WithMin(IntegerSchema, 0), 6)
  /\ input = JsString("3") /\ parsed.ok /\ parsed.value = JsNumber(6)

ParsedAgain == reparsed # NotParsed
IdempotentTypes == {"number", "integer", "boolean", "enum"}

\* C26: for the number, integer, boolean and enum schemas, parsing the
\* value that parse returned succeeds and returns that same value.
C26_ParseIdempotent ==
  (ParsedAgain /\ schema.type \in IdempotentTypes) =>
    reparsed.ok /\ reparsed.value = parsed.value

\* number().parse('3') returned 3, boolean().parse('true') returned true and
\* enum(3, '4').parse(4) returned '4', and the value was parsed again.
C26_Witness ==
  /\ ParsedAgain /\ reparsed.ok
  /\ \/ schema = NumberSchema /\ input = JsString("3") /\ reparsed.value = JsNumber(6)
     \/ schema = BooleanSchema /\ input = JsString("true")
          /\ reparsed.value = JsBoolean(TRUE)
     \/ schema = EnumSchema(<<JsNumber(6), JsString("4")>>) /\ input = JsNumber(8)
          /\ reparsed.value = JsString("4")

\* ------------------------------------------------------------------------
\* Modifiers, refinements, endpoints and the request counter (C27..C30)

RefinedParsed == Parsed /\ schema.type = "refined"
\* The outcome that the claim gives inner.refine(fn) on the input, from the
\* outcome `inner` of the schema below the refinement.
RefinedOutcome(inner, fn) ==
  IF ~inner.ok THEN inner
  ELSE IF Predicate(fn, inner.value).result # "true"
    THEN [ok |-> FALSE, value |-> JsUndefined,
          issues |-> <<Issue(<<>>, IF Predicate(fn, inner.value).result = "string"
                                     THEN Predicate(fn, inner.value).message
                                     ELSE "Validation failed", "")>>,
          calls |-> Append(inner.calls, fn)]
  ELSE [ok |-> TRUE, value |-> inner.value, issues |-> <<>>,
        calls |-> Append(inner.calls, fn)]

\* C28: a refined schema parses with the inner schema first and calls its
\* predicate only on a successfully parsed value.  For s.refine(p1).refine(p2)
\* the parse fails with the issues of s when s fails, without calling p1 or
\* p2; otherwise with the message of p1 when p1 rejects, without calling p2;
\* otherwise with the message of p2 when p2 rejects; otherwise it returns the
\* value that s parsed.  `calls` holds the predicates in the order called.
C28_RefinementsInOrder ==
  RefinedParsed =>
    LET below == schema.children[1]
    IN  IF below.type = "refined"
          THEN LET inner == Parse(below.children[1], input)
               IN  parsed = RefinedOutcome(RefinedOutcome(inner, below.predicate),
                                           schema.predicate)
          ELSE parsed = RefinedOutcome(Parse(below, input), schema.predicate)

\* number().min(0).refine(positive).refine(small) has rejected 0 with the
\* message of the first predicate, and has not called the second.
C28_Witness ==
  /\ RefinedParsed
  /\ schema = RefinedSchema(RefinedSchema(WithMin(NumberSchema, 0), "positive"), "small")
  /\ input = JsNumber(0)
  /\ ~parsed.ok /\ parsed.issues = <<Issue(<<>>, "Must be positive", "")>>
  /\ parsed.calls = <<"positive">>

\* What the claim observes of a schema: its parse result on every input,
\* its isOptional() and its documentation().
Observed(s) ==
  [parse |-> [x \in ModifierInputs |-> Parse(s, x)],
   isOptional |-> IsOptionalSchema(s),
   documentation |-> Documentation(s)]
ModifierCalled == derived' # derived

\* C27: a modifier call (optional, default, refine, describe, array, min,
\* max, length) returns a further schema and leaves the schema it was called
\* on unchanged: over every call of a sequence of calls, the parse result on
\* every input, isOptional() and documentation() of the original schema, and
\* of every schema returned before, stay the same.
C27_ModifiersLeaveOriginal ==
  [][ModifierCalled =>
       /\ Len(derived') = Len(derived) + 1
       /\ Observed(schema') = Observed(schema)
       /\ \A i \in 1..Len(derived) : Observed(derived'[i]) = Observed(derived[i])]_vars

\* number() after .min(0) and then .optional() on the result: number() still
\* accepts -1, reports no minimum and is not optional.
C27_Witness ==
  /\ schema = NumberSchema
  /\ derived = <<WithMin(NumberSchema, 0), OptionalSchema(WithMin(NumberSchema, 0))>>
  /\ Parse(schema, JsNumber(-2)).ok /\ ~Parse(derived[1], JsNumber(-2)).ok
  /\ Documentation(schema).minimum = <<>> /\ Documentation(derived[1]).minimum = <<0>>
  /\ ~IsOptionalSchema(schema) /\ IsOptionalSchema(derived[2])

Handled == handled # NotHandled
\* The issues of the four validations of the request, each under its prefix.
BodyIssues == WithPrefix(Deserialize(endpoint, request).issues, "body")
ParamsIssues ==
  WithPrefix(Parse(ParamsSchema(endpoint), JsObject(request.params)).issues, "params")
QueryIssues ==
  WithPrefix(Parse(QuerySchema(endpoint), JsObject(request.query)).issues, "query")
HeadersIssues ==
  WithPrefix(Parse(HeadersSchema(endpoint), JsObject(request.headers)).issues, "headers")
CollectedIssues == BodyIssues \o ParamsIssues \o QueryIssues \o HeadersIssues

\* C29: handle() validates body, path params, query and headers, all four,
\* whatever failed before; it collects their issues under 'body', 'params',
\* 'query' and 'headers'; when an issue was collected it raises one
\* BadRequestError, status 400, whose message holds all of them, and does
\* not call `do`; `do` is called only when the four produced no issue.
C29_HandleCollectsAllIssues ==
  Handled =>
    /\ handled.calls = <<"body", "params", "query", "headers">>
    /\ Len(CollectedIssues) > 0 =>
          /\ handled.status = 400 /\ ~handled.doCalled
          /\ handled.issues = CollectedIssues
          /\ handled.message = FormatIssues(CollectedIssues)
    /\ handled.doCalled => Len(CollectedIssues) = 0
    /\ Len(CollectedIssues) = 0 => handled.doCalled

\* A request whose body, params, query and headers all fail: one 400 with an
\* issue under each of the four prefixes.
C29_Witness ==
  /\ Handled /\ handled.status = 400 /\ ~handled.doCalled
  /\ \A prefix \in {"body", "params", "query", "headers"} :
       \E i \in 1..Len(handled.issues) : handled.issues[i].path[1] = prefix

Started(r) == reqState[r] = "idle" /\ reqState'[r] # "idle"
Closed(r) == reqState[r] # "closed" /\ reqState'[r] = "closed"

\* C30: in a listening instance the counter is incremented exactly once when
\* a request starts and decremented exactly once when its response closes,
\* and by no other step; so in every reachable state the count is the number
\* of requests started and not yet closed, and it is never negative.
C30_CounterTracksRequests ==
  /\ [](count = Cardinality(ActiveRequests) /\ count >= 0)
  /\ [][count' = count + Cardinality({r \in Requests : Started(r)})
                       - Cardinality({r \in Requests : Closed(r)})]_vars

\* One request has started and closed, a second one is being handled.
C30_Witness ==
  /\ \E r \in Requests : reqState[r] = "closed"
  /\ \E r \in Requests : reqState[r] = "handling"
  /\ count = 1

====
